---- MODULE Spec2Model ----
(***************************************************************************)
(* Model of the PDF translation backend (src/backend/app): the job         *)
(* pipeline run_pipeline with its state store updates, the token budgeter  *)
(* chunk_by_tokens, the translation providers and the order of the checks  *)
(* of the extractor.                                                       *)
(*                                                                         *)
(* A text is a record [body, pad]: the characters of `body` followed by    *)
(* `pad` further characters, so that paragraphs of several thousand        *)
(* characters (the sizes at which the default budget of 3500 tokens        *)
(* splits a document) are represented without spelling them out.           *)
(* Percentages are stored multiplied by Scale, so that 40 + 35 * k / total *)
(* is an integer for every batch count the model reaches.                  *)
(***************************************************************************)
EXTENDS Integers, Sequences, FiniteSets, TLC

(* ------------------------------ bounds -------------------------------- *)
\* longest paragraph sequence a document of the pipeline runs yields
MaxParas == 3
\* configured settings.max_pages of the pipeline runs (MAX_PAGES)
MaxPagesCfg == 2
\* configured settings.max_pdf_mb of the pipeline runs (MAX_PDF_MB)
MaxPdfMbCfg == 1
\* longest input sequence handed to chunk_by_tokens on its own
MaxChunkLen == 3
\* largest max_tokens / reserved_tokens handed to chunk_by_tokens on its own
MaxTokArg == 3
\* longest block text handed to _block_to_paragraphs on its own
MaxBlockChars == 5
\* most pages of a document handed to the extractor on its own
MaxDocPages == 4
\* most distinct candidate words of a text handed to the vocabulary builder
MaxWords == 32
\* longest input handed to the remote provider on its own
MaxRemoteTexts == 3
\* most updates applied in a row to the two backends of the state store
MaxUpdates == 2

(* ------------------------- program constants -------------------------- *)
DEFAULT_MAX_TOKENS == 4000
RESERVED_COMPLETION_TOKENS == 500
MAX_FLASHCARDS == 30
MIN_REPEAT_COUNT == 2
\* MIN_REPEAT_RATIO = 0.6, in tenths
MIN_REPEAT_RATIO_TENTHS == 6

(* --------------------------- null markers ----------------------------- *)
\* Python None for a string-valued field
None == "<None>"
\* _SENTINEL: the keyword was not supplied
SENTINEL == "<SENTINEL>"
\* pct=None: the keyword was not supplied
NoPct == -1

(* ------------------------------- texts -------------------------------- *)
Text(b, p) == [body |-> b, pad |-> p]

\* len(text)
TextLen(t) == Len(t.body) + t.pad

Max(a, b) == IF a >= b THEN a ELSE b

RECURSIVE Fact(_)
Fact(n) == IF n <= 1 THEN 1 ELSE n * Fact(n - 1)

\* percentages are stored as pct * Scale
Scale == Fact(MaxParas)

Pct(n) == n * Scale

RECURSIVE Flatten(_)
\* concatenation of a sequence of sequences
Flatten(ss) == IF ss = <<>> THEN <<>> ELSE Head(ss) \o Flatten(Tail(ss))

(* --------------------------- token budgeter --------------------------- *)
estimate_token_count(text) == Max(1, (TextLen(text) + 3) \div 4)

RECURSIVE ChunkLoop_NoFinalFlush(_, _, _, _, _, _)
\* ChunkLoop without the flush of the last open batch after the loop
ChunkLoop_NoFinalFlush(texts, budget, i, batches, current, current_tokens) ==
    IF i > Len(texts)
    THEN batches
    ELSE LET text == texts[i]
             tokens == estimate_token_count(text)
         IN  IF tokens > budget
             THEN ChunkLoop_NoFinalFlush(texts, budget, i + 1,
                            Append(IF current # <<>> THEN Append(batches, current)
                                                     ELSE batches,
                                   <<text>>),
                            <<>>, 0)
             ELSE LET flush == current_tokens + tokens > budget /\ current # <<>>
                      b2 == IF flush THEN Append(batches, current) ELSE batches
                      c2 == IF flush THEN <<>> ELSE current
                      t2 == IF flush THEN 0 ELSE current_tokens
                  IN  ChunkLoop_NoFinalFlush(texts, budget, i + 1, b2,
                                             Append(c2, text), t2 + tokens)

RECURSIVE ChunkLoop_NoBudgetFlush(_, _, _, _, _, _)
\* ChunkLoop that never closes the open batch when the budget would be exceeded
ChunkLoop_NoBudgetFlush(texts, budget, i, batches, current, current_tokens) ==
    IF i > Len(texts)
    THEN IF current # <<>> THEN Append(batches, current) ELSE batches
    ELSE LET text == texts[i]
             tokens == estimate_token_count(text)
         IN  IF tokens > budget
             THEN ChunkLoop_NoBudgetFlush(texts, budget, i + 1,
                            Append(IF current # <<>> THEN Append(batches, current)
                                                     ELSE batches,
                                   <<text>>),
                            <<>>, 0)
             ELSE ChunkLoop_NoBudgetFlush(texts, budget, i + 1, batches,
                                          Append(current, text),
                                          current_tokens + tokens)

RECURSIVE ChunkLoop_OversizedJoins(_, _, _, _, _, _)
\* ChunkLoop that puts a text that alone exceeds the budget into the open batch
ChunkLoop_OversizedJoins(texts, budget, i, batches, current, current_tokens) ==
    IF i > Len(texts)
    THEN IF current # <<>> THEN Append(batches, current) ELSE batches
    ELSE LET text == texts[i]
             tokens == estimate_token_count(text)
         IN  IF tokens > budget
             THEN ChunkLoop_OversizedJoins(texts, budget, i + 1, batches,
                                           Append(current, text),
                                           current_tokens + tokens)
             ELSE LET flush == current_tokens + tokens > budget /\ current # <<>>
                      b2 == IF flush THEN Append(batches, current) ELSE batches
                      c2 == IF flush THEN <<>> ELSE current
                      t2 == IF flush THEN 0 ELSE current_tokens
                  IN  ChunkLoop_OversizedJoins(texts, budget, i + 1, b2,
                                               Append(c2, text), t2 + tokens)

RECURSIVE ChunkLoop_EagerFlush(_, _, _, _, _, _)
\* ChunkLoop that closes the open batch before every text, whether it fits or not
ChunkLoop_EagerFlush(texts, budget, i, batches, current, current_tokens) ==
    IF i > Len(texts)
    THEN IF current # <<>> THEN Append(batches, current) ELSE batches
    ELSE LET text == texts[i]
             tokens == estimate_token_count(text)
         IN  IF tokens > budget
             THEN ChunkLoop_EagerFlush(texts, budget, i + 1,
                            Append(IF current # <<>> THEN Append(batches, current)
                                                     ELSE batches,
                                   <<text>>),
                            <<>>, 0)
             ELSE LET flush == current # <<>>
                      b2 == IF flush THEN Append(batches, current) ELSE batches
                      c2 == IF flush THEN <<>> ELSE current
                      t2 == IF flush THEN 0 ELSE current_tokens
                  IN  ChunkLoop_EagerFlush(texts, budget, i + 1, b2,
                                           Append(c2, text), t2 + tokens)

RECURSIVE ChunkLoop(_, _, _, _, _, _)
\* the for loop of chunk_by_tokens from texts[i] on, and the final flush
ChunkLoop(texts, budget, i, batches, current, current_tokens) ==
    IF i > Len(texts)
    THEN IF current # <<>> THEN Append(batches, current) ELSE batches
    ELSE LET text == texts[i]
             tokens == estimate_token_count(text)
         IN  IF tokens > budget
             THEN ChunkLoop(texts, budget, i + 1,
                            Append(IF current # <<>> THEN Append(batches, current)
                                                     ELSE batches,
                                   <<text>>),
                            <<>>, 0)
             ELSE LET flush == current_tokens + tokens > budget /\ current # <<>>
                      b2 == IF flush THEN Append(batches, current) ELSE batches
                      c2 == IF flush THEN <<>> ELSE current
                      t2 == IF flush THEN 0 ELSE current_tokens
                  IN  ChunkLoop(texts, budget, i + 1, b2, Append(c2, text), t2 + tokens)

\* chunk_by_tokens without the check of reserved_tokens
chunk_by_tokens_NoReservedCheck(texts, max_tokens, reserved_tokens) ==
    IF max_tokens <= 0
    THEN [ok |-> FALSE, err |-> "max_tokens must be positive", batches |-> <<>>]
    ELSE IF max_tokens - reserved_tokens <= 0
    THEN [ok |-> FALSE, err |-> "reserved_tokens leaves no room for prompts",
          batches |-> <<>>]
    ELSE [ok |-> TRUE, err |-> None,
          batches |-> ChunkLoop(texts, max_tokens - reserved_tokens, 1, <<>>, <<>>, 0)]

\* result: [ok |-> TRUE, batches |-> ...] or [ok |-> FALSE, err |-> message]
chunk_by_tokens(texts, max_tokens, reserved_tokens) ==
    IF max_tokens <= 0
    THEN [ok |-> FALSE, err |-> "max_tokens must be positive", batches |-> <<>>]
    ELSE IF reserved_tokens < 0
    THEN [ok |-> FALSE, err |-> "reserved_tokens cannot be negative", batches |-> <<>>]
    ELSE IF max_tokens - reserved_tokens <= 0
    THEN [ok |-> FALSE, err |-> "reserved_tokens leaves no room for prompts",
          batches |-> <<>>]
    ELSE [ok |-> TRUE, err |-> None,
          batches |-> ChunkLoop(texts, max_tokens - reserved_tokens, 1, <<>>, <<>>, 0)]


(* ------------------------ translation providers ----------------------- *)
\* HFStubProvider.translate_batch: f"[{tgt_lang}] {text}" for every text
HFStubTranslate(texts, tgt_lang) ==
    [i \in 1..Len(texts) |->
        Text("[" \o tgt_lang \o "] " \o texts[i].body, texts[i].pad)]

\* what the remote engine answers for one paragraph when it answers well
RemoteTranslate(text, tgt_lang) == Text(tgt_lang \o ":" \o text.body, text.pad)

\* kinds of answer of the remote engine to one request
ResponseKinds == {"ok", "short", "extra", "not_json", "not_list", "api_error"}

\* the body of the answer of the remote engine to the request for `batch`
Response(kind, batch, tgt_lang) ==
    LET good == [i \in 1..Len(batch) |-> RemoteTranslate(batch[i], tgt_lang)]
    IN  CASE kind = "ok"       -> [json |-> TRUE, list |-> TRUE, items |-> good]
          [] kind = "short"    -> [json |-> TRUE, list |-> TRUE,
                                   items |-> SubSeq(good, 1, Len(good) - 1)]
          [] kind = "extra"    -> [json |-> TRUE, list |-> TRUE,
                                   items |-> Append(good, Text("", 0))]
          [] kind = "not_list" -> [json |-> TRUE, list |-> FALSE, items |-> <<>>]
          [] OTHER             -> [json |-> FALSE, list |-> FALSE, items |-> <<>>]

\* ExtractTranslations that takes JSON that is no list for an empty list
ExtractTranslations_NoListCheck(response) ==
    IF ~response.json
    THEN [ok |-> FALSE, err |-> "OpenAI response was not valid JSON", items |-> <<>>]
    ELSE [ok |-> TRUE, err |-> None, items |-> response.items]

\* OpenAIProvider._extract_translations
ExtractTranslations(response) ==
    IF ~response.json
    THEN [ok |-> FALSE, err |-> "OpenAI response was not valid JSON", items |-> <<>>]
    ELSE IF ~response.list
    THEN [ok |-> FALSE,
          err |-> "OpenAI response JSON does not contain a list of translations",
          items |-> <<>>]
    ELSE [ok |-> TRUE, err |-> None, items |-> response.items]

\* CountMatches without the comparison: every answer is accepted
CountMatches_Always(batch_translations, batch) == TRUE

\* the count check of OpenAIProvider.translate_batch (lines 101-105)
CountMatches(batch_translations, batch) == Len(batch_translations) = Len(batch)

RECURSIVE OpenAILoop(_, _, _, _, _)
\* the for loop of OpenAIProvider.translate_batch from batches[i] on;
\* kinds[i] is the answer of the engine to the i-th request
OpenAILoop(batches, kinds, tgt_lang, i, translations) ==
    IF i > Len(batches)
    THEN [ok |-> TRUE, err |-> None, out |-> translations, calls |-> i - 1]
    ELSE IF kinds[i] = "api_error"
    THEN [ok |-> FALSE, err |-> "OpenAI request failed", out |-> <<>>, calls |-> i]
    ELSE LET batch_translations ==
                 ExtractTranslations(Response(kinds[i], batches[i], tgt_lang))
         IN  IF ~batch_translations.ok
             THEN [ok |-> FALSE, err |-> batch_translations.err, out |-> <<>>,
                   calls |-> i]
             ELSE IF ~CountMatches(batch_translations.items, batches[i])
             THEN [ok |-> FALSE,
                   err |-> "OpenAI returned a mismatched number of translations",
                   out |-> <<>>, calls |-> i]
             ELSE OpenAILoop(batches, kinds, tgt_lang, i + 1,
                             translations \o batch_translations.items)

\* the batches OpenAIProvider.translate_batch splits its input into
OpenAIBatches(texts) ==
    chunk_by_tokens(texts, DEFAULT_MAX_TOKENS, RESERVED_COMPLETION_TOKENS).batches

\* OpenAIProvider.translate_batch
OpenAITranslate(texts, tgt_lang, kinds) ==
    IF texts = <<>>
    THEN [ok |-> TRUE, err |-> None, out |-> <<>>, calls |-> 0]
    ELSE OpenAILoop(OpenAIBatches(texts), kinds, tgt_lang, 1, <<>>)

\* provider.translate_batch of the configured provider
TranslateBatch(provider, texts, tgt_lang, kinds) ==
    IF provider = "hf"
    THEN [ok |-> TRUE, err |-> None, out |-> HFStubTranslate(texts, tgt_lang),
          calls |-> 0]
    ELSE OpenAITranslate(texts, tgt_lang, kinds)

\* get_translation_provider: the provider, or the error it raises
GetTranslationProvider(s) ==
    IF s.translator_provider = "openai"
    THEN IF ~s.openai_api_key
         THEN [ok |-> FALSE,
               err |-> "OPENAI_API_KEY is required for the OpenAI provider",
               provider |-> None]
         ELSE [ok |-> TRUE, err |-> None, provider |-> "openai"]
    ELSE [ok |-> TRUE, err |-> None, provider |-> "hf"]

(* ----------------------- block text of the extractor ------------------- *)
\* The text of a block is a sequence of characters (one-character strings).
\* _WHITESPACE_RE (\s), str.strip: the whitespace the model's texts contain
Whitespace == {" ", "\n"}

\* characters for which str.islower() holds
Lowercase == {"a", "b", "c"}

\* characters for which str.isupper() holds
Uppercase == {"B", "H"}

RECURSIVE LStrip(_)
LStrip(cs) ==
    IF cs = <<>> THEN <<>>
    ELSE IF Head(cs) \in Whitespace THEN LStrip(Tail(cs)) ELSE cs

RECURSIVE RStrip(_)
RStrip(cs) ==
    IF cs = <<>> THEN <<>>
    ELSE IF cs[Len(cs)] \in Whitespace THEN RStrip(SubSeq(cs, 1, Len(cs) - 1))
    ELSE cs

\* str.strip()
Strip(cs) == RStrip(LStrip(cs))

RECURSIVE Collapse(_)
\* _WHITESPACE_RE.sub(" ", cs): every run of whitespace becomes one space
Collapse(cs) ==
    IF cs = <<>> THEN <<>>
    ELSE IF Head(cs) \in Whitespace THEN <<" ">> \o Collapse(LStrip(Tail(cs)))
    ELSE <<Head(cs)>> \o Collapse(Tail(cs))

\* _normalize_key
normalize_key(text) == Strip(Collapse(text))

\* position of the first line break of cs, 0 if there is none
FirstBreak(cs) ==
    IF \E i \in 1..Len(cs) : cs[i] = "\n"
    THEN CHOOSE i \in 1..Len(cs) : cs[i] = "\n" /\ \A j \in 1..(i - 1) : cs[j] # "\n"
    ELSE 0

RECURSIVE SplitLines(_)
\* str.splitlines(): a trailing line break opens no further line
SplitLines(cs) ==
    IF cs = <<>> THEN <<>>
    ELSE LET b == FirstBreak(cs)
         IN  IF b = 0 THEN <<cs>>
             ELSE <<SubSeq(cs, 1, b - 1)>> \o SplitLines(SubSeq(cs, b + 1, Len(cs)))

\* the normalized form of a raw line of a block
NormalizeLine(raw_line) == Collapse(Strip(raw_line))

RECURSIVE LineLoop_NoDehyphenate(_, _, _, _)
\* LineLoop that joins every continuation line with a space
LineLoop_NoDehyphenate(lines, i, paragraphs, current) ==
    IF i > Len(lines)
    THEN IF current # <<>> THEN Append(paragraphs, Strip(current)) ELSE paragraphs
    ELSE LET normalized == NormalizeLine(lines[i])
         IN  IF normalized = <<>>
             THEN LineLoop_NoDehyphenate(lines, i + 1,
                           IF current # <<>> THEN Append(paragraphs, Strip(current))
                                             ELSE paragraphs,
                           <<>>)
             ELSE IF current # <<>>
             THEN LineLoop_NoDehyphenate(lines, i + 1, paragraphs,
                                         current \o <<" ">> \o normalized)
             ELSE LineLoop_NoDehyphenate(lines, i + 1, paragraphs, normalized)

RECURSIVE LineLoop(_, _, _, _)
\* the for loop of _block_to_paragraphs from lines[i] on, and the final append
LineLoop(lines, i, paragraphs, current) ==
    IF i > Len(lines)
    THEN IF current # <<>> THEN Append(paragraphs, Strip(current)) ELSE paragraphs
    ELSE LET normalized == NormalizeLine(lines[i])
         IN  IF normalized = <<>>
             THEN LineLoop(lines, i + 1,
                           IF current # <<>> THEN Append(paragraphs, Strip(current))
                                             ELSE paragraphs,
                           <<>>)
             ELSE IF current # <<>>
             THEN IF current[Len(current)] = "-" /\ normalized[1] \in Lowercase
                  THEN LineLoop(lines, i + 1, paragraphs,
                                SubSeq(current, 1, Len(current) - 1) \o normalized)
                  ELSE LineLoop(lines, i + 1, paragraphs,
                                current \o <<" ">> \o normalized)
             ELSE LineLoop(lines, i + 1, paragraphs, normalized)

\* _block_to_paragraphs
block_to_paragraphs(text) ==
    SelectSeq(LineLoop(SplitLines(text), 1, <<>>, <<>>), LAMBDA p : p # <<>>)

(* ------------------------------ extractor ----------------------------- *)
\* ExtractSync without the page limit
ExtractSync_NoPageLimit(d, s) ==
    IF ~d.exists
    THEN [ok |-> FALSE, err |-> "PDF not found", loaded |-> 0, paras |-> <<>>]
    ELSE IF d.size_bytes > s.max_pdf_mb * 1024 * 1024
    THEN [ok |-> FALSE, err |-> "PDF size exceeds limit", loaded |-> 0, paras |-> <<>>]
    ELSE IF d.open = "encrypted"
    THEN [ok |-> FALSE, err |-> "Encrypted PDFs are not supported", loaded |-> 0,
          paras |-> <<>>]
    ELSE IF d.open # "ok"
    THEN [ok |-> FALSE, err |-> "Unable to open PDF for parsing", loaded |-> 0,
          paras |-> <<>>]
    ELSE IF d.needs_pass
    THEN [ok |-> FALSE, err |-> "Encrypted PDFs are not supported", loaded |-> 0,
          paras |-> <<>>]
    ELSE IF d.page_count = 0
    THEN [ok |-> FALSE, err |-> "PDF contains no pages", loaded |-> 0, paras |-> <<>>]
    ELSE IF ~d.has_blocks
    THEN [ok |-> FALSE, err |-> "The PDF does not contain extractable text content",
          loaded |-> d.page_count, paras |-> <<>>]
    ELSE IF d.paras = <<>>
    THEN [ok |-> FALSE, err |-> "The PDF appears to be image-only or empty",
          loaded |-> d.page_count, paras |-> <<>>]
    ELSE [ok |-> TRUE, err |-> None, loaded |-> d.page_count, paras |-> d.paras]

\* ExtractSync without the check that paragraphs were found
ExtractSync_NoEmptyCheck(d, s) ==
    IF ~d.exists
    THEN [ok |-> FALSE, err |-> "PDF not found", loaded |-> 0, paras |-> <<>>]
    ELSE IF d.size_bytes > s.max_pdf_mb * 1024 * 1024
    THEN [ok |-> FALSE, err |-> "PDF size exceeds limit", loaded |-> 0, paras |-> <<>>]
    ELSE IF d.open = "encrypted"
    THEN [ok |-> FALSE, err |-> "Encrypted PDFs are not supported", loaded |-> 0,
          paras |-> <<>>]
    ELSE IF d.open # "ok"
    THEN [ok |-> FALSE, err |-> "Unable to open PDF for parsing", loaded |-> 0,
          paras |-> <<>>]
    ELSE IF d.needs_pass
    THEN [ok |-> FALSE, err |-> "Encrypted PDFs are not supported", loaded |-> 0,
          paras |-> <<>>]
    ELSE IF d.page_count = 0
    THEN [ok |-> FALSE, err |-> "PDF contains no pages", loaded |-> 0, paras |-> <<>>]
    ELSE IF d.page_count > s.max_pages
    THEN [ok |-> FALSE, err |-> "PDF page count exceeds limit", loaded |-> 0,
          paras |-> <<>>]
    ELSE IF ~d.has_blocks
    THEN [ok |-> FALSE, err |-> "The PDF does not contain extractable text content",
          loaded |-> d.page_count, paras |-> <<>>]
    ELSE [ok |-> TRUE, err |-> None, loaded |-> d.page_count, paras |-> d.paras]

\* _extract_sync on document d: the checks in the order of the code, the
\* pages loaded by the time it returns or raises, and the paragraphs.
\* d.paras is what the block loop yields from the blocks of d.
ExtractSync(d, s) ==
    IF ~d.exists
    THEN [ok |-> FALSE, err |-> "PDF not found", loaded |-> 0, paras |-> <<>>]
    ELSE IF d.size_bytes > s.max_pdf_mb * 1024 * 1024
    THEN [ok |-> FALSE, err |-> "PDF size exceeds limit", loaded |-> 0, paras |-> <<>>]
    ELSE IF d.open = "encrypted"
    THEN [ok |-> FALSE, err |-> "Encrypted PDFs are not supported", loaded |-> 0,
          paras |-> <<>>]
    ELSE IF d.open # "ok"
    THEN [ok |-> FALSE, err |-> "Unable to open PDF for parsing", loaded |-> 0,
          paras |-> <<>>]
    ELSE IF d.needs_pass
    THEN [ok |-> FALSE, err |-> "Encrypted PDFs are not supported", loaded |-> 0,
          paras |-> <<>>]
    ELSE IF d.page_count = 0
    THEN [ok |-> FALSE, err |-> "PDF contains no pages", loaded |-> 0, paras |-> <<>>]
    ELSE IF d.page_count > s.max_pages
    THEN [ok |-> FALSE, err |-> "PDF page count exceeds limit", loaded |-> 0,
          paras |-> <<>>]
    ELSE IF ~d.has_blocks
    THEN [ok |-> FALSE, err |-> "The PDF does not contain extractable text content",
          loaded |-> d.page_count, paras |-> <<>>]
    ELSE IF d.paras = <<>>
    THEN [ok |-> FALSE, err |-> "The PDF appears to be image-only or empty",
          loaded |-> d.page_count, paras |-> <<>>]
    ELSE [ok |-> TRUE, err |-> None, loaded |-> d.page_count, paras |-> d.paras]

(* ----------------------------- state store ---------------------------- *)
\* the `extra` dictionary of an update: the keys it carries (None: absent)
Extra(p, t, f) ==
    [paragraphs_path |-> p, translations_path |-> t, flashcards_path |-> f]

NoExtra == Extra(None, None, None)

\* the keyword arguments of _update_job_state
Upd(status, stage, pct, error, epub_path, cards_path, extra) ==
    [status |-> status, stage |-> stage, pct |-> pct, error |-> error,
     epub_path |-> epub_path, cards_path |-> cards_path, extra |-> extra]

\* UpdateJobState whose manifest branch takes error=None for "not supplied"
UpdateJobState_ManifestKeepsError(j, u, db_mode) ==
    [status    |-> IF u.status # None THEN u.status ELSE j.status,
     stage     |-> IF u.stage # None THEN u.stage ELSE j.stage,
     pct       |-> IF u.pct # NoPct THEN u.pct ELSE j.pct,
     error     |-> IF u.error # SENTINEL /\ (db_mode = "sqlite" \/ u.error # None)
                   THEN u.error ELSE j.error,
     epub_path |-> IF u.epub_path # SENTINEL THEN u.epub_path ELSE j.epub_path,
     cards_path |-> IF u.cards_path # SENTINEL THEN u.cards_path ELSE j.cards_path,
     extra     |-> IF db_mode = "manifests"
                   THEN [k \in DOMAIN j.extra |->
                            IF u.extra[k] # None THEN u.extra[k] ELSE j.extra[k]]
                   ELSE j.extra]

\* _update_job_state on an existing record j: the record after the update
UpdateJobState(j, u, db_mode) ==
    [status    |-> IF u.status # None THEN u.status ELSE j.status,
     stage     |-> IF u.stage # None THEN u.stage ELSE j.stage,
     pct       |-> IF u.pct # NoPct THEN u.pct ELSE j.pct,
     error     |-> IF u.error # SENTINEL THEN u.error ELSE j.error,
     epub_path |-> IF u.epub_path # SENTINEL THEN u.epub_path ELSE j.epub_path,
     cards_path |-> IF u.cards_path # SENTINEL THEN u.cards_path ELSE j.cards_path,
     extra     |-> IF db_mode = "manifests"
                   THEN [k \in DOMAIN j.extra |->
                            IF u.extra[k] # None THEN u.extra[k] ELSE j.extra[k]]
                   ELSE j.extra]

(* ------------------------------- state -------------------------------- *)
VARIABLES
    settings,   \* Settings: storage_backend, s3 credentials, db_mode, provider, limits
    context,    \* PipelineContext of the run
    doc,        \* the source PDF the job was created for
    job,        \* the job record in the state store
    pc,         \* position of run_pipeline
    lv,         \* local variables of run_pipeline and translate_paragraphs
    fs,         \* temporary directories and artifacts that exist in storage
    trace,      \* what the run has done so far: persisted updates and stage work
    cin,        \* arguments of a direct call of a function on its own
    cout        \* its result

vars == <<settings, context, doc, job, pc, lv, fs, trace, cin, cout>>

pipeVars == <<settings, context, doc, job, pc, lv, fs, trace>>

chunkVars == <<cin, cout>>

(* ------------------------------- inputs ------------------------------- *)
\* paragraphs of 2, 8000 and 16000 characters: 1, 2000 and 4000 tokens
PipeTexts == {Text("hi", 0), Text("Hello world.", 7988), Text("Goodbye now.", 15988)}

RECURSIVE SeqsUpTo(_, _)
\* the sequences over S of length at most n
SeqsUpTo(S, n) ==
    IF n = 0 THEN {<<>>}
    ELSE LET shorter == SeqsUpTo(S, n - 1)
         IN  shorter \cup {Append(q, x) : q \in {r \in shorter : Len(r) = n - 1}, x \in S}

TargetLangs == {"es", "fr"}

SmallPdfBytes == 4096

\* a document with one flaw (or none), a page count and the paragraphs of its blocks
Doc(flaw, page_count, has_blocks, paras) ==
    [exists     |-> flaw # "missing",
     size_bytes |-> IF flaw = "too_big" THEN MaxPdfMbCfg * 1024 * 1024 + 1
                                        ELSE SmallPdfBytes,
     open       |-> IF flaw \in {"encrypted", "corrupt"} THEN flaw ELSE "ok",
     needs_pass |-> flaw = "needs_pass",
     page_count |-> page_count,
     has_blocks |-> has_blocks,
     paras      |-> paras]

Docs ==
    {Doc(flaw, 1, TRUE, <<Text("hi", 0)>>) :
        flaw \in {"missing", "too_big", "encrypted", "corrupt", "needs_pass"}}
    \cup {Doc("none", 0, FALSE, <<>>), Doc("none", 1, FALSE, <<>>)}
    \cup {Doc("none", n, TRUE, ps) :
            n \in {1, MaxPagesCfg, MaxPagesCfg + 1}, ps \in SeqsUpTo(PipeTexts, MaxParas)}

SettingsSet ==
    {s \in [storage_backend : {"local", "s3"}, s3_credentials : BOOLEAN,
            db_mode : {"sqlite", "manifests"},
            translator_provider : {"hf", "openai"}, openai_api_key : BOOLEAN,
            max_pdf_mb : {MaxPdfMbCfg}, max_pages : {MaxPagesCfg}] :
        /\ s.storage_backend = "local" => s.s3_credentials = FALSE
        /\ s.translator_provider = "hf" => s.openai_api_key = FALSE}

\* the record _persist_initial_job creates
InitialJob ==
    [status |-> "queued", stage |-> "queued", pct |-> Pct(0), error |-> None,
     epub_path |-> None, cards_path |-> None, extra |-> NoExtra]

InitialLocals ==
    [storage |-> None, tmp_dir |-> None, paragraphs |-> <<>>,
     paragraphs_location |-> None, provider |-> None, batches |-> <<>>,
     index |-> 0, translations |-> <<>>, translations_location |-> None,
     artifact_location |-> None, cards_location |-> None,
     extra_payload |-> NoExtra, exc |-> None, fail_stage |-> None,
     escapes |-> FALSE, short_seen |-> FALSE]

\* an artifact that was not written, and one that was written with content c
Absent == [present |-> FALSE, content |-> <<>>]

File(c) == [present |-> TRUE, content |-> c]

\* tmpdirs: the temporary directories that exist; the four artifacts of the job;
\* pages_loaded: calls of load_page; batch_calls: calls of translate_batch
InitialStorage ==
    [tmpdirs |-> {}, paragraphs_json |-> Absent, translations_json |-> Absent,
     book_epub |-> Absent, flashcards_csv |-> Absent,
     pages_loaded |-> 0, batch_calls |-> 0]

NoChunkIn == [texts |-> <<>>, max_tokens |-> 1, reserved_tokens |-> 0]

NoChunkOut == [called |-> FALSE, ok |-> FALSE, err |-> None, batches |-> <<>>]

Init ==
    /\ settings \in SettingsSet
    /\ context \in [job_id : {"job1"}, target_lang : TargetLangs]
    /\ doc \in Docs
    /\ job = InitialJob
    /\ pc = "start"
    /\ lv = InitialLocals
    /\ fs = InitialStorage
    /\ trace = <<>>
    /\ cin = NoChunkIn
    /\ cout = NoChunkOut

(* --------------------------- run_pipeline ----------------------------- *)
\* the stage the run is in: the last stage it persisted
\* (parse_pdf while the first update has not been persisted yet)
CurrentStage == IF job.stage = "queued" THEN "parse_pdf" ELSE job.stage

\* the locals once an exception with message msg has been raised
Raised(l, msg) == [l EXCEPT !.exc = msg, !.fail_stage = CurrentStage]

WriteEv(u) ==
    [t |-> "write", name |-> "update", status |-> u.status, stage |-> u.stage,
     pct |-> u.pct]

CallEv(n) == [t |-> "call", name |-> n, status |-> None, stage |-> None, pct |-> NoPct]

\* artifact_path / artifact key of the job's artifact `name`
Location(name) ==
    IF lv.storage = "local"
    THEN "data/artifacts/" \o context.job_id \o "/" \o name
    ELSE "artifacts/" \o context.job_id \o "/" \o name

\* await _update_job_state(...) inside the try block: persisted, or it raises
Persist(u, next) ==
    \E stored \in BOOLEAN :
        IF stored
        THEN /\ job' = UpdateJobState(job, u, settings.db_mode)
             /\ trace' = Append(trace, WriteEv(u))
             /\ pc' = next
             /\ lv' = lv
        ELSE /\ job' = job
             /\ trace' = trace
             /\ pc' = "handler"
             /\ lv' = Raised(lv, "state store failure")

\* the update of a step that only reports status, stage and pct
Progress(stage, pct) == Upd("processing", stage, pct, SENTINEL, SENTINEL, SENTINEL, NoExtra)

\* lines 193-195: settings, storage backend, logger (outside the try block)
Begin ==
    /\ pc = "start"
    /\ IF settings.storage_backend = "s3" /\ ~settings.s3_credentials
       THEN /\ pc' = "raised"
            /\ lv' = [lv EXCEPT !.exc = "S3 credentials not configured"]
       ELSE /\ pc' = "upd_parse_5"
            /\ lv' = [lv EXCEPT !.storage = settings.storage_backend]
    /\ UNCHANGED <<settings, context, doc, job, fs, trace, chunkVars>>

\* lines 203-209
EnterParsePdf ==
    /\ pc = "upd_parse_5"
    /\ Persist(Upd("processing", "parse_pdf", Pct(5), None, SENTINEL, SENTINEL, NoExtra),
               "resolve")
    /\ UNCHANGED <<settings, context, doc, fs, chunkVars>>

\* lines 211-215, _resolve_source_pdf
ResolveSourcePdf ==
    /\ pc = "resolve"
    /\ trace' = Append(trace, CallEv("resolve_source_pdf"))
    /\ IF lv.storage = "local"
       THEN /\ fs' = fs
            /\ IF ~doc.exists
               THEN /\ lv' = Raised(lv, "Source PDF not found")
                    /\ pc' = "handler"
               ELSE /\ lv' = lv
                    /\ pc' = "extract"
       ELSE \E outcome \in {"ok", "mkdtemp_fails", "get_object_fails", "write_fails"} :
              /\ outcome = "ok" => doc.exists
              /\ IF outcome = "mkdtemp_fails"
                 THEN /\ fs' = fs
                      /\ lv' = Raised(lv, "mkdtemp failed")
                      /\ pc' = "handler"
                 ELSE /\ fs' = [fs EXCEPT !.tmpdirs = @ \cup {"job-" \o context.job_id}]
                      /\ IF outcome = "ok"
                         THEN /\ lv' = [lv EXCEPT !.tmp_dir = "job-" \o context.job_id]
                              /\ pc' = "extract"
                         ELSE /\ lv' = Raised(lv, IF outcome = "get_object_fails"
                                                  THEN "get_object failed"
                                                  ELSE "write_bytes failed")
                              /\ pc' = "handler"
    /\ UNCHANGED <<settings, context, doc, job, chunkVars>>

\* line 216, extract_paragraphs
ExtractParagraphs ==
    /\ pc = "extract"
    /\ LET r == ExtractSync(doc, settings)
       IN  /\ fs' = [fs EXCEPT !.pages_loaded = r.loaded]
           /\ trace' = Append(trace, CallEv("extract_paragraphs"))
           /\ IF r.ok
              THEN /\ lv' = [lv EXCEPT !.paragraphs = r.paras]
                   /\ pc' = "upd_parse_20"
              ELSE /\ lv' = Raised(lv, r.err)
                   /\ pc' = "handler"
    /\ UNCHANGED <<settings, context, doc, job, chunkVars>>

\* lines 217-222
PersistParse20 ==
    /\ pc = "upd_parse_20"
    /\ Persist(Progress("parse_pdf", Pct(20)), "write_paragraphs")
    /\ UNCHANGED <<settings, context, doc, fs, chunkVars>>

\* lines 224-243: the paragraphs artifact
WriteParagraphs ==
    /\ pc = "write_paragraphs"
    /\ trace' = Append(trace, CallEv("write_paragraphs"))
    /\ \E written \in BOOLEAN :
         IF written
         THEN /\ fs' = [fs EXCEPT !.paragraphs_json = File(lv.paragraphs)]
              /\ lv' = [lv EXCEPT
                          !.paragraphs_location = Location("paragraphs.json"),
                          !.extra_payload =
                              IF settings.db_mode = "manifests"
                              THEN [@ EXCEPT !.paragraphs_path = Location("paragraphs.json")]
                              ELSE @]
              /\ pc' = "upd_parse_30"
         ELSE /\ fs' = fs
              /\ lv' = Raised(lv, "artifact write failed")
              /\ pc' = "handler"
    /\ UNCHANGED <<settings, context, doc, job, chunkVars>>

\* lines 245-251
PersistParse30 ==
    /\ pc = "upd_parse_30"
    /\ Persist(Upd("processing", "parse_pdf", Pct(30), SENTINEL, SENTINEL, SENTINEL,
                   lv.extra_payload),
               "upd_translate_40")
    /\ UNCHANGED <<settings, context, doc, fs, chunkVars>>

\* EnterTranslate that persists the name of the stage after it
EnterTranslate_WrongStage ==
    /\ pc = "upd_translate_40"
    /\ Persist(Progress("build_epub", Pct(40)), "translate_begin")
    /\ UNCHANGED <<settings, context, doc, fs, chunkVars>>

\* lines 254-259
EnterTranslate ==
    /\ pc = "upd_translate_40"
    /\ Persist(Progress("translate", Pct(40)), "translate_begin")
    /\ UNCHANGED <<settings, context, doc, fs, chunkVars>>

\* the answers the remote engine may give to the requests of one translate_batch
\* call (the stub makes no request)
EngineAnswers(provider, texts) ==
    [1..(IF provider = "openai" THEN Len(OpenAIBatches(texts)) ELSE 0) -> ResponseKinds]

\* TranslatePct with the batch index taken for the fraction
TranslatePct_NoTotal(index, total) == Pct(40) + index * 35 * Scale

\* _translate_progress: pct = 40.0 + progress * 35.0 with progress = index / total
TranslatePct(index, total) == Pct(40) + (index * 35 * Scale) \div total

\* Extend that puts the new batch in front
Extend_Prepend(translations, translated_batch) == translated_batch \o translations

\* translations.extend(translated_batch)
Extend(translations, translated_batch) == translations \o translated_batch

\* the remote engine answered one of the requests of the call with one item
\* fewer than the batch it was sent
ShortAnswer(kinds, calls) == \E i \in 1..calls : kinds[i] = "short"

\* translate_paragraphs lines 91-117: provider, batches, empty accumulator
TranslateBegin ==
    /\ pc = "translate_begin"
    /\ LET provider == GetTranslationProvider(settings)
           chunks == chunk_by_tokens(lv.paragraphs, DEFAULT_MAX_TOKENS,
                                     RESERVED_COMPLETION_TOKENS)
       IN  IF lv.paragraphs = <<>>
           THEN /\ fs' = [fs EXCEPT !.translations_json = File(<<>>)]
                /\ lv' = [lv EXCEPT !.translations = <<>>,
                            !.translations_location = Location("translated_paragraphs.json")]
                /\ pc' = "upd_translate_75"
           ELSE /\ fs' = fs
                /\ IF ~provider.ok
                   THEN lv' = Raised(lv, provider.err) /\ pc' = "handler"
                   ELSE IF ~chunks.ok
                   THEN lv' = Raised(lv, chunks.err) /\ pc' = "handler"
                   ELSE /\ lv' = [lv EXCEPT !.provider = provider.provider,
                                    !.batches = chunks.batches,
                                    !.index = 0, !.translations = <<>>]
                        /\ pc' = "progress_0"
    /\ UNCHANGED <<settings, context, doc, job, trace, chunkVars>>

\* translate_paragraphs lines 119-120: progress_callback(0.0)
TranslateProgress0 ==
    /\ pc = "progress_0"
    /\ Persist(Progress("translate", TranslatePct(0, Max(1, Len(lv.batches)))),
               IF Len(lv.batches) = 0 THEN "persist_translations" ELSE "translate_batch")
    /\ UNCHANGED <<settings, context, doc, fs, chunkVars>>

\* translate_paragraphs lines 122-128: one translate_batch call of the loop
TranslateBatchCall ==
    /\ pc = "translate_batch"
    /\ lv.index < Len(lv.batches)
    /\ LET batch == lv.batches[lv.index + 1]
       IN  \E kinds \in EngineAnswers(lv.provider, batch) :
             LET translated_batch ==
                     TranslateBatch(lv.provider, batch, context.target_lang, kinds)
             IN  /\ fs' = [fs EXCEPT !.batch_calls = @ + 1]
                 /\ trace' = Append(trace, CallEv("translate_batch"))
                 /\ IF translated_batch.ok
                    THEN /\ lv' = [lv EXCEPT
                                     !.translations = Extend(@, translated_batch.out),
                                     !.index = @ + 1,
                                     !.short_seen =
                                         @ \/ ShortAnswer(kinds, translated_batch.calls)]
                         /\ pc' = "progress_k"
                    ELSE /\ lv' = [Raised(lv, translated_batch.err) EXCEPT
                                     !.short_seen =
                                         @ \/ ShortAnswer(kinds, translated_batch.calls)]
                         /\ pc' = "handler"
    /\ UNCHANGED <<settings, context, doc, job, chunkVars>>

\* TranslateProgress that goes on to the next batch without reporting progress
TranslateProgress_Skipped ==
    /\ pc = "progress_k"
    /\ pc' = IF lv.index < Len(lv.batches) THEN "translate_batch"
                                           ELSE "persist_translations"
    /\ UNCHANGED <<settings, context, doc, job, lv, fs, trace, chunkVars>>

\* translate_paragraphs lines 129-130: progress_callback(index / total_batches)
TranslateProgress ==
    /\ pc = "progress_k"
    /\ Persist(Progress("translate", TranslatePct(lv.index, Max(1, Len(lv.batches)))),
               IF lv.index < Len(lv.batches) THEN "translate_batch"
                                             ELSE "persist_translations")
    /\ UNCHANGED <<settings, context, doc, fs, chunkVars>>

\* translate_paragraphs lines 132-138 and run_pipeline lines 279-280
PersistTranslations ==
    /\ pc = "persist_translations"
    /\ trace' = Append(trace, CallEv("persist_translations"))
    /\ \E written \in BOOLEAN :
         IF written
         THEN /\ fs' = [fs EXCEPT !.translations_json = File(lv.translations)]
              /\ lv' = [lv EXCEPT
                          !.translations_location = Location("translated_paragraphs.json"),
                          !.extra_payload =
                              IF settings.db_mode = "manifests"
                              THEN [@ EXCEPT !.translations_path =
                                                Location("translated_paragraphs.json")]
                              ELSE @]
              /\ pc' = "upd_translate_75"
         ELSE /\ fs' = fs
              /\ lv' = Raised(lv, "artifact write failed")
              /\ pc' = "handler"
    /\ UNCHANGED <<settings, context, doc, job, chunkVars>>

\* lines 282-288
PersistTranslate75 ==
    /\ pc = "upd_translate_75"
    /\ Persist(Upd("processing", "translate", Pct(75), SENTINEL, SENTINEL, SENTINEL,
                   lv.extra_payload),
               "upd_build_85")
    /\ UNCHANGED <<settings, context, doc, fs, chunkVars>>

\* EnterBuildEpub that starts the build without persisting the stage first
EnterBuildEpub_NoPersist ==
    /\ pc = "upd_build_85"
    /\ pc' = "build_epub"
    /\ UNCHANGED <<settings, context, doc, job, lv, fs, trace, chunkVars>>

\* lines 295-300
EnterBuildEpub ==
    /\ pc = "upd_build_85"
    /\ Persist(Progress("build_epub", Pct(85)), "build_epub")
    /\ UNCHANGED <<settings, context, doc, fs, chunkVars>>

\* lines 302-316, build_epub
BuildEpub ==
    /\ pc = "build_epub"
    /\ trace' = Append(trace, CallEv("build_epub"))
    /\ IF lv.translations = <<>>
       THEN /\ fs' = fs
            /\ lv' = Raised(lv, "Cannot build an EPUB with no content")
            /\ pc' = "handler"
       ELSE \E built \in BOOLEAN :
              IF built
              THEN /\ fs' = [fs EXCEPT !.book_epub = File(lv.translations)]
                   /\ lv' = [lv EXCEPT !.artifact_location = Location("book.epub")]
                   /\ pc' = "upd_build_95"
              ELSE /\ fs' = fs
                   /\ lv' = Raised(lv, "EPUB write failed")
                   /\ pc' = "handler"
    /\ UNCHANGED <<settings, context, doc, job, chunkVars>>

\* PersistBuild95 that records epub_path as soon as the e-book is built
PersistBuild95_WithPath ==
    /\ pc = "upd_build_95"
    /\ Persist(Upd("processing", "build_epub", Pct(95), SENTINEL, lv.artifact_location,
                   SENTINEL, NoExtra),
               "upd_flashcards_96")
    /\ UNCHANGED <<settings, context, doc, fs, chunkVars>>

\* lines 318-323
PersistBuild95 ==
    /\ pc = "upd_build_95"
    /\ Persist(Progress("build_epub", Pct(95)), "upd_flashcards_96")
    /\ UNCHANGED <<settings, context, doc, fs, chunkVars>>

\* lines 326-334
EnterFlashcards ==
    /\ pc = "upd_flashcards_96"
    /\ IF lv.artifact_location = None
       THEN /\ lv' = Raised(lv, "EPUB artifact location was not determined")
            /\ pc' = "handler"
            /\ UNCHANGED <<job, trace>>
       ELSE Persist(Progress("flashcards", Pct(96)), "flashcards")
    /\ UNCHANGED <<settings, context, doc, fs, chunkVars>>

\* the candidate word lists the tokenizer and the scoring may hand to the provider
CandidateWords == {<<>>, <<Text("hola", 0)>>, <<Text("mundo", 0), Text("hola", 0)>>}

\* lines 336-356, generate_flashcards: the CSV is opened (and its header
\* written) before the candidate words are translated
GenerateFlashcards ==
    /\ pc = "flashcards"
    /\ trace' = Append(trace, CallEv("generate_flashcards"))
    /\ \E candidate_words \in CandidateWords,
          io \in {"ok", "open_fails"} \cup (IF lv.storage = "s3" THEN {"put_fails"} ELSE {}) :
         \E kinds \in EngineAnswers(lv.provider, candidate_words) :
           LET translated_words ==
                   TranslateBatch(lv.provider, candidate_words, "en", kinds)
               called == candidate_words # <<>>
               rows == [i \in 1..Len(candidate_words) |->
                           <<candidate_words[i], translated_words.out[i]>>]
               header_only == IF lv.storage = "local" THEN File(<<>>)
                                                      ELSE fs.flashcards_csv
           IN  IF io = "open_fails"
               THEN /\ fs' = fs
                    /\ lv' = Raised(lv, "flashcards file could not be opened")
                    /\ pc' = "handler"
               ELSE IF called /\ ~translated_words.ok
               THEN /\ fs' = [fs EXCEPT !.flashcards_csv = header_only,
                                !.batch_calls = @ + 1]
                    /\ lv' = Raised(lv, translated_words.err)
                    /\ pc' = "handler"
               ELSE IF called /\ Len(translated_words.out) # Len(candidate_words)
               THEN /\ fs' = [fs EXCEPT !.flashcards_csv = header_only,
                                !.batch_calls = @ + 1]
                    /\ lv' = Raised(lv, "Translation provider returned a mismatched number of flashcard translations")
                    /\ pc' = "handler"
               ELSE IF io = "put_fails"
               THEN /\ fs' = [fs EXCEPT !.batch_calls = @ + (IF called THEN 1 ELSE 0)]
                    /\ lv' = Raised(lv, "put_object failed")
                    /\ pc' = "handler"
               ELSE /\ fs' = [fs EXCEPT
                                !.flashcards_csv = File(IF called THEN rows ELSE <<>>),
                                !.batch_calls = @ + (IF called THEN 1 ELSE 0)]
                    /\ lv' = [lv EXCEPT !.cards_location = Location("flashcards.csv")]
                    /\ pc' = "upd_flashcards_98"
    /\ UNCHANGED <<settings, context, doc, job, chunkVars>>

\* lines 358-363
PersistFlashcards98 ==
    /\ pc = "upd_flashcards_98"
    /\ Persist(Progress("flashcards", Pct(98)), "upd_done")
    /\ UNCHANGED <<settings, context, doc, fs, chunkVars>>

\* lines 366-374: final_extra
FinalExtra ==
    IF settings.db_mode = "manifests"
    THEN [paragraphs_path   |-> IF lv.extra_payload.paragraphs_path # None
                                THEN lv.extra_payload.paragraphs_path
                                ELSE lv.paragraphs_location,
          translations_path |-> IF lv.extra_payload.translations_path # None
                                THEN lv.extra_payload.translations_path
                                ELSE lv.translations_location,
          flashcards_path   |-> IF lv.extra_payload.flashcards_path # None
                                THEN lv.extra_payload.flashcards_path
                                ELSE lv.cards_location]
    ELSE NoExtra

\* FinalUpdate that does not pass cards_path
FinalUpdate_NoCards(artifact_location, cards_location, final_extra) ==
    Upd("done", "finalize", Pct(100), None, artifact_location, SENTINEL, final_extra)

\* the update of lines 376-385
FinalUpdate(artifact_location, cards_location, final_extra) ==
    Upd("done", "finalize", Pct(100), None, artifact_location, cards_location,
        final_extra)

\* lines 376-385
Finalize ==
    /\ pc = "upd_done"
    /\ Persist(FinalUpdate(lv.artifact_location, lv.cards_location, FinalExtra),
               "finally")
    /\ UNCHANGED <<settings, context, doc, fs, chunkVars>>

\* the update the except block of run_pipeline makes (lines 388-393)
HandlerUpdate(exc) == Upd("error", "parse_pdf", NoPct, exc, SENTINEL, SENTINEL, NoExtra)

\* Handler that resumes the run at the finalize update after recording the error
Handler_Resumes ==
    /\ pc = "handler"
    /\ \E stored \in BOOLEAN :
         IF stored
         THEN /\ job' = UpdateJobState(job, HandlerUpdate(lv.exc), settings.db_mode)
              /\ trace' = Append(trace, WriteEv(HandlerUpdate(lv.exc)))
              /\ lv' = lv
              /\ pc' = "upd_done"
         ELSE /\ job' = job
              /\ trace' = trace
              /\ lv' = [lv EXCEPT !.exc = "state store failure", !.escapes = TRUE]
              /\ pc' = "finally"
    /\ UNCHANGED <<settings, context, doc, fs, chunkVars>>

\* lines 386-393: the except block; its own update may raise as well
Handler ==
    /\ pc = "handler"
    /\ \E stored \in BOOLEAN :
         IF stored
         THEN /\ job' = UpdateJobState(job, HandlerUpdate(lv.exc), settings.db_mode)
              /\ trace' = Append(trace, WriteEv(HandlerUpdate(lv.exc)))
              /\ lv' = lv
         ELSE /\ job' = job
              /\ trace' = trace
              /\ lv' = [lv EXCEPT !.exc = "state store failure", !.escapes = TRUE]
    /\ pc' = "finally"
    /\ UNCHANGED <<settings, context, doc, fs, chunkVars>>

\* lines 394-399: the finally block and the db_mode check after it
Finally ==
    /\ pc = "finally"
    /\ fs' = IF lv.tmp_dir # None THEN [fs EXCEPT !.tmpdirs = @ \ {lv.tmp_dir}] ELSE fs
    /\ pc' = IF lv.escapes \/ settings.db_mode \notin {"sqlite", "manifests"}
             THEN "raised" ELSE "ended"
    /\ UNCHANGED <<settings, context, doc, job, lv, trace, chunkVars>>

Next ==
    \/ Begin
    \/ EnterParsePdf
    \/ ResolveSourcePdf
    \/ ExtractParagraphs
    \/ PersistParse20
    \/ WriteParagraphs
    \/ PersistParse30
    \/ EnterTranslate
    \/ TranslateBegin
    \/ TranslateProgress0
    \/ TranslateBatchCall
    \/ TranslateProgress
    \/ PersistTranslations
    \/ PersistTranslate75
    \/ EnterBuildEpub
    \/ BuildEpub
    \/ PersistBuild95
    \/ EnterFlashcards
    \/ GenerateFlashcards
    \/ PersistFlashcards98
    \/ Finalize
    \/ Handler
    \/ Finally

\* one run of run_pipeline on a freshly created job
Spec == Init /\ [][Next]_vars

(* ---------------------- chunk_by_tokens on its own --------------------- *)
\* texts of 0, 1, 5 and 9 characters: 1, 1, 2 and 3 tokens
ChunkTexts == {Text("", 0), Text("a", 0), Text("abcde", 0), Text("abcdefghi", 0)}

InitChunk ==
    /\ settings \in {s \in SettingsSet : s.storage_backend = "local"
                                         /\ s.db_mode = "sqlite"
                                         /\ s.translator_provider = "hf"}
    /\ context = [job_id |-> "job1", target_lang |-> "es"]
    /\ doc = Doc("none", 1, TRUE, <<Text("hi", 0)>>)
    /\ job = InitialJob
    /\ pc = "chunk"
    /\ lv = InitialLocals
    /\ fs = InitialStorage
    /\ trace = <<>>
    /\ cin \in [texts : SeqsUpTo(ChunkTexts, MaxChunkLen),
                max_tokens : 0..MaxTokArg, reserved_tokens : (-1)..MaxTokArg]
    /\ cout = NoChunkOut

\* a call chunk_by_tokens(texts, max_tokens=..., reserved_tokens=...)
ChunkCall ==
    /\ pc = "chunk"
    /\ LET r == chunk_by_tokens(cin.texts, cin.max_tokens, cin.reserved_tokens)
       IN  cout' = [called |-> TRUE, ok |-> r.ok, err |-> r.err, batches |-> r.batches]
    /\ pc' = "chunked"
    /\ UNCHANGED <<settings, context, doc, job, lv, fs, trace, cin>>

NextChunk == ChunkCall

SpecChunk == InitChunk /\ [][NextChunk]_vars

(* -------------------- _block_to_paragraphs on its own ------------------ *)
\* a lowercase letter, an uppercase letter, the hyphen, a space, a line break
BlockChars == {"a", "B", "-", " ", "\n"}

InitBlock ==
    /\ settings \in {s \in SettingsSet : s.storage_backend = "local"
                                         /\ s.db_mode = "sqlite"
                                         /\ s.translator_provider = "hf"}
    /\ context = [job_id |-> "job1", target_lang |-> "es"]
    /\ doc = Doc("none", 1, TRUE, <<Text("hi", 0)>>)
    /\ job = InitialJob
    /\ pc = "block"
    /\ lv = InitialLocals
    /\ fs = InitialStorage
    /\ trace = <<>>
    /\ cin \in [text : SeqsUpTo(BlockChars, MaxBlockChars)]
    /\ cout = [called |-> FALSE, paragraphs |-> <<>>]

\* a call _block_to_paragraphs(text)
BlockCall ==
    /\ pc = "block"
    /\ cout' = [called |-> TRUE, paragraphs |-> block_to_paragraphs(cin.text)]
    /\ pc' = "block_done"
    /\ UNCHANGED <<settings, context, doc, job, lv, fs, trace, cin>>

NextBlock == BlockCall

SpecBlock == InitBlock /\ [][NextBlock]_vars

(* ----------------------- _extract_sync on its own ---------------------- *)
\* A page is the sequence of blocks page.get_text("blocks") yields; a block is
\* [kind, text, header, footer]: block[6] as "text" or "image", block[4],
\* y0 <= header_cutoff and y1 >= footer_cutoff.  Pages have a height.
RawBlock(kind, text, header, footer) ==
    [kind |-> kind, text |-> text, header |-> header, footer |-> footer]

\* the block passes the checks of lines 117-130
IsTextBlock(b) ==
    /\ b.kind = "text"
    /\ Strip(b.text) # <<>>
    /\ normalize_key(Strip(b.text)) # <<>>

\* the TextBlock of lines 135-143, with the zones of lines 146-149
TextBlock(page_index, b) ==
    [page_index |-> page_index,
     text       |-> Strip(b.text),
     key        |-> normalize_key(Strip(b.text)),
     header     |-> b.header,
     footer     |-> b.footer]

\* the blocks one page appends to `blocks`
PageBlocks(page, page_index) ==
    LET f == SelectSeq(page, IsTextBlock)
    IN  [i \in 1..Len(f) |-> TextBlock(page_index, f[i])]

RECURSIVE BlockLoop(_, _)
\* `blocks` after the pages from pages[i] on were read
BlockLoop(pages, i) ==
    IF i > Len(pages) THEN <<>>
    ELSE PageBlocks(pages[i], i - 1) \o BlockLoop(pages, i + 1)

\* page_header_keys / page_footer_keys of one page
PageKeys(page, zone) ==
    LET bs == PageBlocks(page, 0)
    IN  {bs[i].key : i \in {n \in 1..Len(bs) :
                              IF zone = "header" THEN bs[n].header ELSE bs[n].footer}}

\* Counter lookup
CounterGet(counter, key) == IF key \in DOMAIN counter THEN counter[key] ELSE 0

\* a counter that survives from the previous call
NewCounter_Kept(left) == left

\* header_counter = Counter(), footer_counter = Counter(): local to the call,
\* whatever an earlier call left behind
NewCounter(left) == [k \in {} |-> 0]

\* the counter after every page added its keys of the zone, each once
CountPages(counter, pages, zone) ==
    LET keys == DOMAIN counter
                  \cup UNION {PageKeys(pages[p], zone) : p \in 1..Len(pages)}
    IN  [k \in keys |->
            CounterGet(counter, k)
              + Cardinality({p \in 1..Len(pages) : k \in PageKeys(pages[p], zone)})]

\* max(MIN_REPEAT_COUNT, int(page_count * MIN_REPEAT_RATIO))
RepeatThreshold(page_count) ==
    Max(MIN_REPEAT_COUNT, (page_count * MIN_REPEAT_RATIO_TENTHS) \div 10)

\* header_keys / footer_keys
RepeatKeys(counter, page_count) ==
    IF page_count >= MIN_REPEAT_COUNT
    THEN {k \in DOMAIN counter : counter[k] >= RepeatThreshold(page_count)}
    ELSE {}

\* a block is skipped only where it lies in the zone its key repeats in
Skipped_InZoneOnly(block, header_keys, footer_keys) ==
    \/ block.key \in header_keys /\ block.header
    \/ block.key \in footer_keys /\ block.footer

\* line 173
Skipped(block, header_keys, footer_keys) ==
    block.key \in header_keys \/ block.key \in footer_keys

\* _extract_sync on the pages of a readable document; left_h and left_f are
\* the counters the previous call ended with
ExtractPages(pages, s, left_h, left_f) ==
    LET page_count == Len(pages)
        blocks == BlockLoop(pages, 1)
        header_counter == CountPages(NewCounter(left_h), pages, "header")
        footer_counter == CountPages(NewCounter(left_f), pages, "footer")
        header_keys == RepeatKeys(header_counter, page_count)
        footer_keys == RepeatKeys(footer_counter, page_count)
        kept == SelectSeq(blocks, LAMBDA b : ~Skipped(b, header_keys, footer_keys))
        paragraphs == Flatten([i \in 1..Len(kept) |-> block_to_paragraphs(kept[i].text)])
        r == ExtractSync(Doc("none", page_count, blocks # <<>>, paragraphs), s)
    IN  [ok |-> r.ok, err |-> r.err, paras |-> r.paras, kept |-> kept,
         header_counter |-> header_counter, footer_counter |-> footer_counter]

\* a running head in the header zone, the same with other spacing, and the
\* same text in the body of a page
HeadBlock == RawBlock("text", <<"H">>, TRUE, FALSE)
HeadBlockSpaced == RawBlock("text", <<" ", "H", "\n">>, TRUE, FALSE)
HeadInBody == RawBlock("text", <<"H">>, FALSE, FALSE)
\* a page number in the footer zone
FootBlock == RawBlock("text", <<"c">>, FALSE, TRUE)
\* body text with a word broken over two lines
BodyBlock == RawBlock("text", <<"a", "-", "\n", "b">>, FALSE, FALSE)
\* an image in the header zone and a block of blanks
ImageBlock == RawBlock("image", <<"H">>, TRUE, FALSE)
BlankBlock == RawBlock("text", <<" ">>, FALSE, FALSE)

PageKinds ==
    { <<HeadBlock, BodyBlock>>,
      <<HeadInBody>>,
      <<BodyBlock, FootBlock>>,
      <<HeadBlock, HeadBlockSpaced>>,
      <<ImageBlock, BlankBlock>>,
      <<HeadBlock>>,
      <<BodyBlock>> }

NoCounter == [k \in {} |-> 0]

InitExtract ==
    /\ settings \in {[s EXCEPT !.max_pages = MaxDocPages] :
                       s \in {t \in SettingsSet : t.storage_backend = "local"
                                                  /\ t.db_mode = "sqlite"
                                                  /\ t.translator_provider = "hf"}}
    /\ context = [job_id |-> "job1", target_lang |-> "es"]
    /\ doc = Doc("none", 1, TRUE, <<Text("hi", 0)>>)
    /\ job = InitialJob
    /\ pc = "extract_alone"
    /\ lv = InitialLocals
    /\ fs = InitialStorage
    /\ trace = <<>>
    /\ cin \in [pages : SeqsUpTo(PageKinds, MaxDocPages) \ {<<>>}]
    /\ cout = [runs |-> <<>>, header_counter |-> NoCounter,
               footer_counter |-> NoCounter]

\* a call extract_paragraphs(pdf_path) on the document, the first or the second
ExtractCall ==
    /\ pc = "extract_alone"
    /\ Len(cout.runs) < 2
    /\ LET r == ExtractPages(cin.pages, settings, cout.header_counter,
                             cout.footer_counter)
       IN  cout' = [runs |-> Append(cout.runs,
                                    [ok |-> r.ok, err |-> r.err, paras |-> r.paras,
                                     kept |-> r.kept]),
                    header_counter |-> r.header_counter,
                    footer_counter |-> r.footer_counter]
    /\ UNCHANGED <<settings, context, doc, job, pc, lv, fs, trace, cin>>

NextExtract == ExtractCall

SpecExtract == InitExtract /\ [][NextExtract]_vars

(* --------------------- generate_flashcards on its own ------------------ *)
\* A word is a text with its spelling case: [body, pad, cap].  A token of the
\* tokenizer is [text, lemma, is_space, is_punct, like_num, is_stop]; a lemma
\* with body "" is the empty lemma.
Word(body, cap) == [body |-> body, pad |-> 0, cap |-> cap]

Token(text, lemma, is_space, is_punct, like_num, is_stop) ==
    [text |-> text, lemma |-> lemma, is_space |-> is_space, is_punct |-> is_punct,
     like_num |-> like_num, is_stop |-> is_stop]

\* _normalise_token: str.casefold()
normalise_token(word) == [word EXCEPT !.cap = FALSE]

\* the token passes the checks of lines 29-32
IsCandidate(token) ==
    ~(token.is_space \/ token.is_punct \/ token.like_num) /\ ~token.is_stop

\* what _iter_candidate_tokens yields for a token it does not skip
TokenKey(token) ==
    IF token.lemma.body # "" /\ token.lemma.body # "-PRON-"
    THEN normalise_token(token.lemma)
    ELSE normalise_token(token.text)

\* _iter_candidate_tokens: the keys of the tokens, in the order of the text
iter_candidate_tokens(tokens) ==
    LET c == SelectSeq(tokens, IsCandidate)
    IN  [i \in 1..Len(c) |-> TokenKey(c[i])]

RECURSIVE Distinct(_, _)
\* the keys of a Counter in the order it holds them: by first occurrence
Distinct(keys, seen) ==
    IF keys = <<>> THEN <<>>
    ELSE IF Head(keys) \in seen THEN Distinct(Tail(keys), seen)
    ELSE <<Head(keys)>> \o Distinct(Tail(keys), seen \cup {Head(keys)})

\* _count_token_frequencies: frequencies.items()
count_token_frequencies(tokens) ==
    LET keys == iter_candidate_tokens(tokens)
        words == Distinct(keys, {})
    IN  [i \in 1..Len(words) |->
            [word |-> words[i],
             count |-> Cardinality({n \in 1..Len(keys) : keys[n] = words[i]})]]

\* lines 73-76: score = count * (1 + max(0, 7 - zipf)), zipf in whole units
ScoredRow(item, zipf) ==
    [word |-> item.word, count |-> item.count,
     score |-> item.count * (1 + Max(0, 7 - zipf[item.word.body]))]

\* the sort key (item[4], item[1]) of a is at least that of b
KeyAtLeast(a, b) == a.score > b.score \/ (a.score = b.score /\ a.count >= b.count)

RECURSIVE InsertRow(_, _)
\* row placed behind every row whose key is at least its own
InsertRow(sorted, row) ==
    IF sorted = <<>> THEN <<row>>
    ELSE IF KeyAtLeast(Head(sorted), row)
    THEN <<Head(sorted)>> \o InsertRow(Tail(sorted), row)
    ELSE <<row>> \o sorted

RECURSIVE SortRows(_, _)
\* scored_rows.sort(key=..., reverse=True): stable, descending
SortRows(rows, sorted) ==
    IF rows = <<>> THEN sorted
    ELSE SortRows(Tail(rows), InsertRow(sorted, Head(rows)))

\* every scored row is kept
TopRows_All(scored_rows) == scored_rows

\* scored_rows[:MAX_FLASHCARDS]
TopRows(scored_rows) ==
    SubSeq(scored_rows, 1, IF Len(scored_rows) < MAX_FLASHCARDS
                           THEN Len(scored_rows) ELSE MAX_FLASHCARDS)

\* generate_flashcards with the offline provider: the rows of the CSV
FlashcardRows(tokens, zipf, translation_lang) ==
    LET frequencies == count_token_frequencies(tokens)
        scored_rows == [i \in 1..Len(frequencies) |-> ScoredRow(frequencies[i], zipf)]
        top_rows == TopRows(SortRows(scored_rows, <<>>))
        candidate_words == [i \in 1..Len(top_rows) |-> top_rows[i].word]
        translated_words == TranslateBatch("hf", candidate_words, translation_lang, <<>>)
    IN  IF candidate_words = <<>>
        THEN [ok |-> TRUE, err |-> None, rows |-> <<>>]
        ELSE IF ~translated_words.ok
        THEN [ok |-> FALSE, err |-> translated_words.err, rows |-> <<>>]
        ELSE IF Len(translated_words.out) # Len(candidate_words)
        THEN [ok |-> FALSE,
              err |-> "Translation provider returned a mismatched number of flashcard translations",
              rows |-> <<>>]
        ELSE [ok |-> TRUE, err |-> None,
              rows |-> [i \in 1..Len(candidate_words) |->
                          [word |-> candidate_words[i],
                           translation |-> translated_words.out[i]]]]

\* the i-th word of the vocabulary of the texts, as its lemma and as the
\* inflected form the text shows
Lemma(i, cap) == Word("w" \o ToString(i), cap)
Form(i, cap) == Word("f" \o ToString(i), cap)

\* one occurrence of the i-th word; every fifth word has no lemma and every
\* seventh is a pronoun, so that the form stands for it
WordToken(i, cap) ==
    Token(Form(i, cap),
          IF i % 5 = 0 THEN Word("", FALSE)
          ELSE IF i % 7 = 0 THEN Word("-PRON-", FALSE)
          ELSE Lemma(i, cap),
          FALSE, FALSE, FALSE, FALSE)

\* tokens the builder must skip: a blank, a comma, a number and a stop word
SkippedTokens ==
    << Token(Word(" ", FALSE), Word(" ", FALSE), TRUE, FALSE, FALSE, FALSE),
       Token(Word(",", FALSE), Word(",", FALSE), FALSE, TRUE, FALSE, FALSE),
       Token(Word("42", FALSE), Word("42", FALSE), FALSE, FALSE, TRUE, FALSE),
       Token(Word("the", TRUE), Word("the", FALSE), FALSE, FALSE, FALSE, TRUE) >>

\* how often the i-th word occurs in a text of pattern k
Occurrences(i, k) == 1 + ((i * k) % 3)

\* a text of n distinct words: three passes over the vocabulary, the second
\* capitalised, each followed by the tokens to skip
TextTokens(n, k) ==
    Flatten([r \in 1..3 |->
                SelectSeq([i \in 1..n |-> WordToken(i, r = 2)],
                          LAMBDA t : \E i \in 1..n : t = WordToken(i, r = 2)
                                                     /\ Occurrences(i, k) >= r)
                  \o SkippedTokens])

\* zipf_frequency of the keys of a text of pattern z
ZipfOf(n, z) ==
    [b \in {TokenKey(WordToken(i, FALSE)).body : i \in 1..n} |->
        LET i == CHOOSE j \in 1..n : TokenKey(WordToken(j, FALSE)).body = b
        IN  (i * z) % 9]

InitFlash ==
    /\ settings \in {s \in SettingsSet : s.storage_backend = "local"
                                         /\ s.db_mode = "sqlite"
                                         /\ s.translator_provider = "hf"}
    /\ context = [job_id |-> "job1", target_lang |-> "es"]
    /\ doc = Doc("none", 1, TRUE, <<Text("hi", 0)>>)
    /\ job = InitialJob
    /\ pc = "flash_alone"
    /\ lv = InitialLocals
    /\ fs = InitialStorage
    /\ trace = <<>>
    /\ cin \in {[tokens |-> TextTokens(n, k), zipf |-> ZipfOf(n, z)] :
                  n \in 0..MaxWords, k \in 0..2, z \in 0..3}
    /\ cout = [called |-> FALSE, ok |-> FALSE, err |-> None, rows |-> <<>>]

\* a call generate_flashcards(paragraphs, output_path, language_code=...)
FlashCall ==
    /\ pc = "flash_alone"
    /\ LET r == FlashcardRows(cin.tokens, cin.zipf, "en")
       IN  cout' = [called |-> TRUE, ok |-> r.ok, err |-> r.err, rows |-> r.rows]
    /\ pc' = "flash_done"
    /\ UNCHANGED <<settings, context, doc, job, lv, fs, trace, cin>>

NextFlash == FlashCall

SpecFlash == InitFlash /\ [][NextFlash]_vars

(* ---------------- OpenAIProvider.translate_batch on its own ------------- *)
InitRemote ==
    /\ settings \in {s \in SettingsSet : s.storage_backend = "local"
                                         /\ s.db_mode = "sqlite"
                                         /\ s.translator_provider = "openai"
                                         /\ s.openai_api_key}
    /\ context = [job_id |-> "job1", target_lang |-> "es"]
    /\ doc = Doc("none", 1, TRUE, <<Text("hi", 0)>>)
    /\ job = InitialJob
    /\ pc = "remote_alone"
    /\ lv = InitialLocals
    /\ fs = InitialStorage
    /\ trace = <<>>
    /\ cin \in UNION {[texts : {ts}, tgt_lang : TargetLangs,
                       kinds : EngineAnswers("openai", ts)] :
                         ts \in SeqsUpTo(PipeTexts, MaxRemoteTexts)}
    /\ cout = [called |-> FALSE, ok |-> FALSE, err |-> None, out |-> <<>>, calls |-> 0]

\* a call provider.translate_batch(texts, src_lang=..., tgt_lang=...) of the
\* OpenAI provider; kinds are the answers of the engine to its requests
RemoteCall ==
    /\ pc = "remote_alone"
    /\ LET r == TranslateBatch(GetTranslationProvider(settings).provider,
                               cin.texts, cin.tgt_lang, cin.kinds)
       IN  cout' = [called |-> TRUE, ok |-> r.ok, err |-> r.err, out |-> r.out,
                    calls |-> r.calls]
    /\ pc' = "remote_done"
    /\ UNCHANGED <<settings, context, doc, job, lv, fs, trace, cin>>

NextRemote == RemoteCall

SpecRemote == InitRemote /\ [][NextRemote]_vars

(* ------------------ _update_job_state on both backends ----------------- *)
\* what a backend holds for a job id: no record, or the record
NoRecord == [present |-> FALSE, rec |-> InitialJob]

Record(j) == [present |-> TRUE, rec |-> j]

\* _update_job_state(job_id, ...) on what the backend holds for job_id:
\* nothing happens when session.get returns None / the manifest is missing
UpdateStored(entry, u, db_mode) ==
    IF ~entry.present THEN entry ELSE Record(UpdateJobState(entry.rec, u, db_mode))

\* keyword arguments the callers may combine
StoreUpdates ==
    {Upd(st, sg, p, e, ep, cp, x) :
        st \in {None, "error"}, sg \in {None, "translate"},
        p \in {NoPct, Pct(40)}, e \in {SENTINEL, None, "boom"},
        ep \in {SENTINEL, "book.epub"}, cp \in {SENTINEL, "flashcards.csv"},
        x \in {NoExtra, Extra("paragraphs.json", None, None)}}

\* the update before the first one
NoUpdate == Upd(None, None, NoPct, SENTINEL, SENTINEL, SENTINEL, NoExtra)

InitBackends ==
    /\ settings \in {s \in SettingsSet : s.storage_backend = "local"
                                         /\ s.db_mode = "sqlite"
                                         /\ s.translator_provider = "hf"}
    /\ context = [job_id |-> "job1", target_lang |-> "es"]
    /\ doc = Doc("none", 1, TRUE, <<Text("hi", 0)>>)
    /\ job = InitialJob
    /\ pc = "backends"
    /\ lv = InitialLocals
    /\ fs = InitialStorage
    /\ trace = <<>>
    /\ cin \in [created : BOOLEAN]
    /\ LET first == IF cin.created THEN Record(InitialJob) ELSE NoRecord
       IN  cout = [sqlite |-> first, manifests |-> first, applied |-> 0,
                   last |-> NoUpdate, before_sqlite |-> first,
                   before_manifests |-> first]

\* the same call _update_job_state(job_id, ...) under DB_MODE=sqlite and
\* under DB_MODE=manifests
BackendsUpdate ==
    /\ pc = "backends"
    /\ cout.applied < MaxUpdates
    /\ \E u \in StoreUpdates :
         cout' = [sqlite |-> UpdateStored(cout.sqlite, u, "sqlite"),
                  manifests |-> UpdateStored(cout.manifests, u, "manifests"),
                  applied |-> cout.applied + 1,
                  last |-> u,
                  before_sqlite |-> cout.sqlite,
                  before_manifests |-> cout.manifests]
    /\ UNCHANGED <<settings, context, doc, job, pc, lv, fs, trace, cin>>

NextBackends == BackendsUpdate

SpecBackends == InitBackends /\ [][NextBackends]_vars

(* ------------- two writers of _update_job_state on one job ------------- *)
\* Two callers run _update_job_state for the same job id.  As coroutines of
\* one event loop they interleave at the awaits of the sqlite branch
\* (session.get, session.commit) and not inside the manifest branch, which
\* has none; as workers (processes or threads) they interleave between the
\* read and the write of either branch.  job_lock excludes nobody.

\* session.commit(): the UPDATE carries the columns whose assigned value
\* differs from the value session.get loaded
CommitSqlite(stored, loaded, u) ==
    LET after == UpdateJobState(loaded, u, "sqlite")
    IN  [f \in DOMAIN stored |-> IF after[f] # loaded[f] THEN after[f] ELSE stored[f]]

\* path.write_text(json.dumps(payload)): the whole payload read before
WriteManifest(stored, loaded, u) == UpdateJobState(loaded, u, "manifests")

\* updates run_pipeline issues: lines 203-209, 245-251, 254-259, 376-385, 388-393
WriterUpdates ==
    { Upd("processing", "parse_pdf", Pct(5), None, SENTINEL, SENTINEL, NoExtra),
      Upd("processing", "parse_pdf", Pct(30), SENTINEL, SENTINEL, SENTINEL,
          Extra("paragraphs.json", None, None)),
      Progress("translate", Pct(40)),
      FinalUpdate("book.epub", "flashcards.csv", NoExtra),
      HandlerUpdate("boom") }

\* records a job may hold when the two updates begin
WriterFirstRecords ==
    { InitialJob,
      UpdateJobState(InitialJob, Progress("parse_pdf", Pct(20)), "sqlite"),
      UpdateJobState(InitialJob, HandlerUpdate("old"), "sqlite") }

InitWriters ==
    /\ settings \in {s \in SettingsSet : s.storage_backend = "local"
                                         /\ s.translator_provider = "hf"}
    /\ context = [job_id |-> "job1", target_lang |-> "es"]
    /\ doc = Doc("none", 1, TRUE, <<Text("hi", 0)>>)
    /\ job \in WriterFirstRecords
    /\ pc = "writers"
    /\ lv = InitialLocals
    /\ fs = InitialStorage
    /\ trace = <<>>
    /\ cin \in [workers : BOOLEAN, first : {job}, u : [1..2 -> WriterUpdates]]
    /\ cout = [w \in 1..2 |-> [at |-> "start", loaded |-> job]]

\* session.get(Job, job_id) / json.loads(path.read_text()) of writer w
WriterRead(w) ==
    /\ pc = "writers"
    /\ cout[w].at = "start"
    /\ settings.db_mode = "sqlite" \/ cin.workers
    /\ cout' = [cout EXCEPT ![w] = [at |-> "read", loaded |-> job]]
    /\ UNCHANGED <<settings, context, doc, job, pc, lv, fs, trace, cin>>

\* session.commit() / path.write_text(...) of writer w
WriterWrite(w) ==
    /\ pc = "writers"
    /\ cout[w].at = "read"
    /\ job' = IF settings.db_mode = "sqlite"
              THEN CommitSqlite(job, cout[w].loaded, cin.u[w])
              ELSE WriteManifest(job, cout[w].loaded, cin.u[w])
    /\ cout' = [cout EXCEPT ![w].at = "done"]
    /\ UNCHANGED <<settings, context, doc, pc, lv, fs, trace, cin>>

\* the manifest branch run by a coroutine: nothing runs between its read and
\* its write
WriterManifestUpdate(w) ==
    /\ pc = "writers"
    /\ cout[w].at = "start"
    /\ settings.db_mode = "manifests" /\ ~cin.workers
    /\ job' = WriteManifest(job, job, cin.u[w])
    /\ cout' = [cout EXCEPT ![w] = [at |-> "done", loaded |-> job]]
    /\ UNCHANGED <<settings, context, doc, pc, lv, fs, trace, cin>>

NextWriters ==
    \E w \in 1..2 : WriterRead(w) \/ WriterWrite(w) \/ WriterManifestUpdate(w)

SpecWriters == InitWriters /\ [][NextWriters]_vars

(* ------------------ _extract_sync, one check at a time ----------------- *)
\* documents in which any of the conditions _extract_sync checks may hold
\* together: what each check would find if the run got as far as making it
SyncDocs ==
    {d \in [exists : BOOLEAN,
            size_bytes : {SmallPdfBytes, MaxPdfMbCfg * 1024 * 1024,
                          MaxPdfMbCfg * 1024 * 1024 + 1},
            open : {"ok", "encrypted", "corrupt"},
            needs_pass : BOOLEAN,
            page_count : 0..(MaxPagesCfg + 1),
            has_blocks : BOOLEAN,
            paras : {<<>>, <<Text("hi", 0)>>}] :
        ~d.has_blocks => d.paras = <<>>}

\* before the first check: fitz.open not called (opened), document.close not
\* called (closed), no page loaded, no result
InitSync ==
    /\ settings \in {s \in SettingsSet : s.storage_backend = "local"
                                         /\ s.db_mode = "sqlite"
                                         /\ s.translator_provider = "hf"}
    /\ context = [job_id |-> "job1", target_lang |-> "es"]
    /\ doc \in SyncDocs
    /\ job = InitialJob
    /\ pc = "sync_exists"
    /\ lv = InitialLocals
    /\ fs = InitialStorage
    /\ trace = <<>>
    /\ cin = NoChunkIn
    /\ cout = [opened |-> FALSE, closed |-> FALSE, loaded |-> 0, ok |-> FALSE,
               err |-> None, paras |-> <<>>]

\* raise ValueError(msg) / FileNotFoundError(msg) outside the except clause
\* of fitz.open; the finally block closes the document when fitz.open
\* was called (and so returned one)
SyncRaise(msg) ==
    /\ cout' = [cout EXCEPT !.err = msg, !.closed = cout.opened]
    /\ pc' = "sync_raised"

\* lines 71-72
SyncExists ==
    /\ pc = "sync_exists"
    /\ IF ~doc.exists
       THEN SyncRaise("PDF not found")
       ELSE cout' = cout /\ pc' = "sync_size"
    /\ UNCHANGED <<settings, context, doc, job, lv, fs, trace, cin>>

\* SyncSize that lets every file through
SyncSize_Unchecked ==
    /\ pc = "sync_size"
    /\ cout' = cout
    /\ pc' = "sync_open"
    /\ UNCHANGED <<settings, context, doc, job, lv, fs, trace, cin>>

\* lines 74-79
SyncSize ==
    /\ pc = "sync_size"
    /\ IF doc.size_bytes > settings.max_pdf_mb * 1024 * 1024
       THEN SyncRaise("PDF size exceeds limit")
       ELSE cout' = cout /\ pc' = "sync_open"
    /\ UNCHANGED <<settings, context, doc, job, lv, fs, trace, cin>>

\* lines 81-87: fitz.open, and the two messages of its failure
SyncOpen ==
    /\ pc = "sync_open"
    /\ IF doc.open = "encrypted"
       THEN /\ cout' = [cout EXCEPT !.opened = TRUE,
                                    !.err = "Encrypted PDFs are not supported"]
            /\ pc' = "sync_raised"
       ELSE IF doc.open # "ok"
       THEN /\ cout' = [cout EXCEPT !.opened = TRUE,
                                    !.err = "Unable to open PDF for parsing"]
            /\ pc' = "sync_raised"
       ELSE /\ cout' = [cout EXCEPT !.opened = TRUE]
            /\ pc' = "sync_needs_pass"
    /\ UNCHANGED <<settings, context, doc, job, lv, fs, trace, cin>>

\* lines 90-91
SyncNeedsPass ==
    /\ pc = "sync_needs_pass"
    /\ IF doc.needs_pass
       THEN SyncRaise("Encrypted PDFs are not supported")
       ELSE cout' = cout /\ pc' = "sync_page_count"
    /\ UNCHANGED <<settings, context, doc, job, lv, fs, trace, cin>>

\* lines 93-102
SyncPageCount ==
    /\ pc = "sync_page_count"
    /\ IF doc.page_count = 0
       THEN SyncRaise("PDF contains no pages")
       ELSE IF doc.page_count > settings.max_pages
       THEN SyncRaise("PDF page count exceeds limit")
       ELSE cout' = cout /\ pc' = "sync_load"
    /\ UNCHANGED <<settings, context, doc, job, lv, fs, trace, cin>>

\* line 109: document.load_page(page_index), one page of the loop
SyncLoadPage ==
    /\ pc = "sync_load"
    /\ cout.loaded < doc.page_count
    /\ cout' = [cout EXCEPT !.loaded = @ + 1]
    /\ pc' = "sync_load"
    /\ UNCHANGED <<settings, context, doc, job, lv, fs, trace, cin>>

\* lines 156-157, after the last page
SyncBlocks ==
    /\ pc = "sync_load"
    /\ cout.loaded = doc.page_count
    /\ IF ~doc.has_blocks
       THEN SyncRaise("The PDF does not contain extractable text content")
       ELSE cout' = cout /\ pc' = "sync_paragraphs"
    /\ UNCHANGED <<settings, context, doc, job, lv, fs, trace, cin>>

\* lines 159-182
SyncParagraphs ==
    /\ pc = "sync_paragraphs"
    /\ IF doc.paras = <<>>
       THEN SyncRaise("The PDF appears to be image-only or empty")
       ELSE /\ cout' = [cout EXCEPT !.ok = TRUE, !.paras = doc.paras, !.closed = TRUE]
            /\ pc' = "sync_returned"
    /\ UNCHANGED <<settings, context, doc, job, lv, fs, trace, cin>>

NextSync ==
    \/ SyncExists
    \/ SyncSize
    \/ SyncOpen
    \/ SyncNeedsPass
    \/ SyncPageCount
    \/ SyncLoadPage
    \/ SyncBlocks
    \/ SyncParagraphs

\* one call of _extract_sync on a document of SyncDocs
SpecSync == InitSync /\ [][NextSync]_vars

(* --------------------- two runs for different jobs -------------------- *)
\* job ids (uuid4().hex in routes.py): opaque names without path separators,
\* one of them a prefix of another
JobIds == <<"a1", "a10", "b2">>


ArtifactNames ==
    {"paragraphs.json", "translated_paragraphs.json", "book.epub", "flashcards.csv"}

\* LocalStorage.artifact_path with the path of every job's directory alike
artifact_path_Shared(job_id, name) == "data/artifacts/" \o name

\* LocalStorage.artifact_path: base_dir / "artifacts" / job_id / name
artifact_path(job_id, name) == "data/artifacts/" \o job_id \o "/" \o name

\* the S3 key f"artifacts/{job_id}/{name}"
ArtifactKey(job_id, name) == "artifacts/" \o job_id \o "/" \o name

\* db.manifest_path: data/manifests/{job_id}.json
manifest_path(job_id) == "data/manifests/" \o job_id \o ".json"

ArtifactLocation(storage, job_id, name) ==
    IF storage = "local" THEN artifact_path(job_id, name) ELSE ArtifactKey(job_id, name)

\* what _update_job_state addresses the record by: the manifest file of the
\* job, or the primary key of the jobs table
RecordKey(db_mode, job_id) ==
    IF db_mode = "manifests" THEN manifest_path(job_id) ELSE job_id

\* one effect of a run: a state update, an artifact write, or the source
\* resolution
Effect(kind, u, name) == [kind |-> kind, u |-> u, name |-> name]

\* the effects of run_pipeline for job_id in the order of the code, with the
\* translate progress reports taken as one
JobSteps(job_id, storage, db_mode) ==
    LET Loc(n) == ArtifactLocation(storage, job_id, n)
        m == db_mode = "manifests"
        e1 == IF m THEN Extra(Loc("paragraphs.json"), None, None) ELSE NoExtra
        e2 == IF m THEN Extra(Loc("paragraphs.json"), Loc("translated_paragraphs.json"),
                              None)
                   ELSE NoExtra
        e3 == IF m THEN Extra(Loc("paragraphs.json"), Loc("translated_paragraphs.json"),
                              Loc("flashcards.csv"))
                   ELSE NoExtra
        nothing == Progress("parse_pdf", Pct(5))
    IN  <<Effect("update", Upd("processing", "parse_pdf", Pct(5), None, SENTINEL,
                               SENTINEL, NoExtra), ""),
          Effect("resolve", nothing, ""),
          Effect("update", Progress("parse_pdf", Pct(20)), ""),
          Effect("artifact", nothing, "paragraphs.json"),
          Effect("update", Upd("processing", "parse_pdf", Pct(30), SENTINEL, SENTINEL,
                               SENTINEL, e1), ""),
          Effect("update", Progress("translate", Pct(40)), ""),
          Effect("update", Progress("translate", TranslatePct(1, 1)), ""),
          Effect("artifact", nothing, "translated_paragraphs.json"),
          Effect("update", Upd("processing", "translate", Pct(75), SENTINEL, SENTINEL,
                               SENTINEL, e2), ""),
          Effect("update", Progress("build_epub", Pct(85)), ""),
          Effect("artifact", nothing, "book.epub"),
          Effect("update", Progress("build_epub", Pct(95)), ""),
          Effect("update", Progress("flashcards", Pct(96)), ""),
          Effect("artifact", nothing, "flashcards.csv"),
          Effect("update", Progress("flashcards", Pct(98)), ""),
          Effect("update", FinalUpdate(Loc("book.epub"), Loc("flashcards.csv"), e3), "")>>

\* cout[r]: run r alone, the record and the artifacts it has produced so far
\* (every artifact written carries the job's id)
InitJobs ==
    /\ settings \in {s \in SettingsSet : s.translator_provider = "hf"
                                         /\ (s.storage_backend = "s3" => s.s3_credentials)}
    /\ context = [job_id |-> "job1", target_lang |-> "es"]
    /\ doc = Doc("none", 1, TRUE, <<Text("hi", 0)>>)
    /\ cin \in [ids : {<<JobIds[q[1]], JobIds[q[2]]>> :
                        q \in {x \in (1..Len(JobIds)) \X (1..Len(JobIds)) : x[1] < x[2]}}]
    /\ job = [k \in {RecordKey(settings.db_mode, cin.ids[r]) : r \in 1..2} |-> InitialJob]
    /\ pc = "jobs"
    /\ lv = [r \in 1..2 |-> [at |-> "steps", step |-> 1, tmp_dir |-> None]]
    /\ fs = [files |-> [q \in {} |-> Absent], tmpdirs |-> {}]
    /\ trace = <<>>
    /\ cout = [r \in 1..2 |->
                  [record |-> InitialJob, files |-> [n \in ArtifactNames |-> Absent]]]

\* _update_job_state(job_id, ...) against the store: the record of that key,
\* nothing when there is none
StoreUpdate(store, db_mode, job_id, u) ==
    IF RecordKey(db_mode, job_id) \in DOMAIN store
    THEN [store EXCEPT ![RecordKey(db_mode, job_id)] = UpdateJobState(@, u, db_mode)]
    ELSE store

\* the next effect of run r: it happens, or it raises
JobStep(r) ==
    /\ pc = "jobs"
    /\ lv[r].at = "steps"
    /\ LET id == cin.ids[r]
           e == JobSteps(id, settings.storage_backend, settings.db_mode)[lv[r].step]
           next == IF lv[r].step = 16 THEN "finally" ELSE "steps"
           step == IF lv[r].step = 16 THEN 16 ELSE lv[r].step + 1
       IN  \E done \in BOOLEAN :
             IF ~done
             THEN /\ lv' = [lv EXCEPT ![r].at = "handler"]
                  /\ UNCHANGED <<job, fs, cout>>
             ELSE IF e.kind = "update"
             THEN /\ job' = StoreUpdate(job, settings.db_mode, id, e.u)
                  /\ cout' = [cout EXCEPT ![r].record =
                                 UpdateJobState(@, e.u, settings.db_mode)]
                  /\ lv' = [lv EXCEPT ![r].at = next, ![r].step = step]
                  /\ fs' = fs
             ELSE IF e.kind = "artifact"
             THEN /\ fs' = [fs EXCEPT !.files =
                              (ArtifactLocation(settings.storage_backend, id, e.name)
                                  :> File(<<Text(id, 0)>>)) @@ @]
                  /\ cout' = [cout EXCEPT ![r].files[e.name] = File(<<Text(id, 0)>>)]
                  /\ lv' = [lv EXCEPT ![r].at = next, ![r].step = step]
                  /\ job' = job
             ELSE IF settings.storage_backend = "local"
             THEN /\ lv' = [lv EXCEPT ![r].at = next, ![r].step = step]
                  /\ UNCHANGED <<job, fs, cout>>
             ELSE \E suffix \in {"x", "y"} :   \* the suffix mkdtemp picks
                    LET dir == "job-" \o id \o "-" \o suffix
                    IN  /\ dir \notin fs.tmpdirs
                        /\ fs' = [fs EXCEPT !.tmpdirs = @ \cup {dir}]
                        /\ lv' = [lv EXCEPT ![r].at = next, ![r].step = step,
                                            ![r].tmp_dir = dir]
                        /\ UNCHANGED <<job, cout>>
    /\ UNCHANGED <<settings, context, doc, pc, trace, cin>>

\* the except block of run r
JobHandler(r) ==
    /\ pc = "jobs"
    /\ lv[r].at = "handler"
    /\ \E stored \in BOOLEAN :
         IF stored
         THEN /\ job' = StoreUpdate(job, settings.db_mode, cin.ids[r],
                                    HandlerUpdate("failure"))
              /\ cout' = [cout EXCEPT ![r].record =
                             UpdateJobState(@, HandlerUpdate("failure"), settings.db_mode)]
         ELSE UNCHANGED <<job, cout>>
    /\ lv' = [lv EXCEPT ![r].at = "finally"]
    /\ UNCHANGED <<settings, context, doc, pc, fs, trace, cin>>

\* the finally block of run r: shutil.rmtree(tmp_dir)
JobFinally(r) ==
    /\ pc = "jobs"
    /\ lv[r].at = "finally"
    /\ fs' = IF lv[r].tmp_dir # None THEN [fs EXCEPT !.tmpdirs = @ \ {lv[r].tmp_dir}]
                                     ELSE fs
    /\ lv' = [lv EXCEPT ![r].at = "ended"]
    /\ UNCHANGED <<settings, context, doc, job, pc, trace, cin, cout>>

NextJobs ==
    \E r \in 1..2 :
        \/ JobStep(r)
        \/ JobHandler(r)
        \/ JobFinally(r)

\* two runs of run_pipeline for different job ids, interleaved step by step
SpecJobs == InitJobs /\ [][NextJobs]_vars



(* ------------------------------ properties ---------------------------- *)
\* run_pipeline is over: it returned, or an exception left it
RunOver == pc \in {"ended", "raised"}

\* the persisted updates of the run, in order
Writes == SelectSeq(trace, LAMBDA e : e.t = "write")

\* C1: when a stage of run_pipeline fails, the record ends with status=error
\* and with the stage that was executing when the failure occurred (a failure
\* during translate, the e-book build or flashcards leaves that stage).
C1_StageRetained ==
    (RunOver /\ job.status = "error") => job.stage = lv.fail_stage

\* C2: every failure raised during run_pipeline, at whichever step, leaves
\* the job with status=error and error equal to the message of the exception.
C2_FailureCaught ==
    (RunOver /\ lv.exc # None) => (job.status = "error" /\ job.error = lv.exc)

\* C3: every pct persisted during a run lies in 0..100 and is at least every
\* pct persisted before it in that run, for any number of batches.
C3_PctMonotone ==
    LET w == SelectSeq(Writes, LAMBDA e : e.pct # NoPct)
    IN  /\ job.pct \in 0..Pct(100)
        /\ \A i \in 1..Len(w) :
              /\ w[i].pct \in 0..Pct(100)
              /\ \A j \in 1..i : w[j].pct <= w[i].pct

C3_Witness ==
    /\ pc = "ended"
    /\ job.status = "done"
    /\ Len(lv.batches) >= 2
    /\ \E i \in 1..Len(Writes) : Writes[i].pct \notin {Pct(n) : n \in 0..100}

\* C4: status=done implies stage=finalize, pct=100, error null and both
\* artifact references non-null, in every state of the job record.
C4_DoneComplete ==
    job.status = "done" =>
        /\ job.stage = "finalize"
        /\ job.pct = Pct(100)
        /\ job.error = None
        /\ job.epub_path # None
        /\ job.cards_path # None

C4_Witness == job.status = "done" /\ job.epub_path = Location("book.epub")

\* position of a stage in the order of the pipeline, the build stage being
\* persisted under the name `build` (0: not a stage of the order)
Rank(stage, build) ==
    CASE stage = "parse_pdf"  -> 1
      [] stage = "translate"  -> 2
      [] stage = build        -> 3
      [] stage = "flashcards" -> 4
      [] stage = "finalize"   -> 5
      [] OTHER                -> 0

\* the stage whose work a call belongs to
WorkRank(name) ==
    CASE name \in {"resolve_source_pdf", "extract_paragraphs", "write_paragraphs"} -> 1
      [] name \in {"translate_batch", "persist_translations"} -> 2
      [] name = "build_epub" -> 3
      [] OTHER -> 4

\* the stage of the last update persisted before position j of the trace
StageAt(j, build) ==
    LET earlier == SelectSeq(SubSeq(trace, 1, j - 1), LAMBDA e : e.t = "write")
    IN  IF earlier = <<>> THEN 0 ELSE Rank(earlier[Len(earlier)].stage, build)

\* the persisted stage follows parse_pdf, translate, `build`, flashcards and
\* then finalize with status=done: no step back, no stage skipped, the work
\* of a stage done while that stage is the persisted one and complete when
\* the next stage is entered
StageOrder(build) ==
    LET w == SelectSeq(Writes, LAMBDA e : e.status \in {"processing", "done"})
    IN  /\ \A i \in 1..Len(w) :
              /\ Rank(w[i].stage, build) \in 1..5
              /\ (w[i].status = "done") = (w[i].stage = "finalize")
              /\ IF i = 1
                 THEN Rank(w[i].stage, build) = 1
                 ELSE Rank(w[i].stage, build) - Rank(w[i - 1].stage, build) \in {0, 1}
        /\ \A j \in 1..Len(trace) :
              trace[j].t = "call" => StageAt(j, build) = WorkRank(trace[j].name)
        /\ job.status \in {"processing", "done"} =>
              /\ Rank(job.stage, build) >= 2 =>
                    /\ fs.paragraphs_json = File(lv.paragraphs)
                    /\ lv.paragraphs # <<>>
              /\ Rank(job.stage, build) >= 3 =>
                    /\ fs.translations_json = File(lv.translations)
                    /\ lv.index = Len(lv.batches)
              /\ Rank(job.stage, build) >= 4 => fs.book_epub.present
              /\ Rank(job.stage, build) >= 5 => fs.flashcards_csv.present

C6_TmpRemoved == RunOver => fs.tmpdirs = {}

Expected(p) ==
    IF settings.translator_provider = "hf"
    THEN Text("[" \o context.target_lang \o "] " \o p.body, p.pad)
    ELSE Text(context.target_lang \o ":" \o p.body, p.pad)

\* C8: the translated sequence that is persisted and handed to the e-book
\* builder has the length of the extracted sequence and its i-th element is
\* the translation of the i-th paragraph ("[L] " + p_i with the stub), for
\* any batching; a run in which no step raises ends with status=done,
\* stage=finalize, pct=100.
C8_OrderPreserved ==
    LET expected == [i \in 1..Len(lv.paragraphs) |-> Expected(lv.paragraphs[i])]
    IN  /\ fs.translations_json.present => fs.translations_json.content = expected
        /\ fs.book_epub.present => fs.book_epub.content = expected
        /\ fs.paragraphs_json.present => fs.paragraphs_json.content = doc.paras
        /\ (pc = "ended" /\ lv.exc = None) =>
              /\ job.status = "done"
              /\ job.stage = "finalize"
              /\ job.pct = Pct(100)
              /\ fs.book_epub.present

C8_Witness ==
    /\ pc = "ended"
    /\ lv.exc = None
    /\ settings.translator_provider = "hf"
    /\ context.target_lang = "es"
    /\ Len(lv.batches) >= 2
    /\ \E i \in 1..Len(lv.batches) : Len(lv.batches[i]) >= 2
    /\ fs.book_epub.content[1] = Text("[es] hi", 0)

\* C9: when the source has more pages than max_pages, no page is loaded, no
\* translate, build or flashcards stage is persisted or executed, no
\* translate_batch call is made, and the run ends with status=error and
\* stage=parse_pdf.
C9_PageLimit ==
    doc.page_count > settings.max_pages =>
        /\ fs.pages_loaded = 0
        /\ fs.batch_calls = 0
        /\ \A i \in 1..Len(trace) :
              /\ trace[i].t = "write" => trace[i].stage = "parse_pdf"
              /\ trace[i].t = "call" => WorkRank(trace[i].name) = 1
        /\ job.status # "done"
        /\ pc = "ended" => (job.status = "error" /\ job.stage = "parse_pdf")

C9_Witness ==
    /\ doc.page_count > settings.max_pages
    /\ doc.paras # <<>>
    /\ pc = "ended"
    /\ job.error = "PDF page count exceeds limit"

\* C10: the batches of chunk_by_tokens, concatenated in order, are exactly the
\* input sequence; no batch is empty and an empty input yields no batches.
C10_ChunkCovers ==
    (cout.called /\ cout.ok) =>
        /\ Flatten(cout.batches) = cin.texts
        /\ \A i \in 1..Len(cout.batches) : cout.batches[i] # <<>>
        /\ cin.texts = <<>> => cout.batches = <<>>

C10_Witness ==
    /\ cout.called
    /\ cout.ok
    /\ Len(cout.batches) >= 2
    /\ \E i \in 1..Len(cout.batches) : Len(cout.batches[i]) >= 2
    /\ \E i, j \in 1..Len(cin.texts) : i < j /\ cin.texts[i] = cin.texts[j]

RECURSIVE TokenSum(_)
\* sum of the estimated token costs of the texts of a batch
TokenSum(batch) ==
    IF batch = <<>> THEN 0
    ELSE estimate_token_count(Head(batch)) + TokenSum(Tail(batch))

\* the budget of the direct call
ChunkBudget == cin.max_tokens - cin.reserved_tokens

\* C11: every batch chunk_by_tokens returns has an estimated token sum of at
\* most max_tokens - reserved_tokens, unless it is a singleton whose only
\* text alone costs more than that budget.
C11_BatchWithinBudget ==
    (cout.called /\ cout.ok) =>
        \A k \in 1..Len(cout.batches) :
            \/ TokenSum(cout.batches[k]) <= ChunkBudget
            \/ /\ Len(cout.batches[k]) = 1
               /\ estimate_token_count(cout.batches[k][1]) > ChunkBudget

C11_Witness ==
    /\ cout.called
    /\ cout.ok
    /\ \E k \in 1..Len(cout.batches) :
          Len(cout.batches[k]) >= 2 /\ TokenSum(cout.batches[k]) = ChunkBudget
    /\ \E k \in 1..Len(cout.batches) : TokenSum(cout.batches[k]) > ChunkBudget
    /\ TokenSum(cin.texts) > 2 * ChunkBudget

\* the texts of batches 1..k-1
Before(batches, k) == Flatten(SubSeq(batches, 1, k - 1))

\* C12: a text whose own cost exceeds the budget does not make the call
\* fail; it comes back unchanged as a batch of its own, after the batches
\* holding exactly the texts before it and so before those of the texts
\* after it.
C12_OversizedAlone ==
    (cout.called /\ cin.max_tokens > 0 /\ cin.reserved_tokens >= 0
                 /\ ChunkBudget > 0) =>
        /\ cout.ok
        /\ \A i \in 1..Len(cin.texts) :
              estimate_token_count(cin.texts[i]) > ChunkBudget =>
                  \E k \in 1..Len(cout.batches) :
                      /\ cout.batches[k] = <<cin.texts[i]>>
                      /\ Before(cout.batches, k) = SubSeq(cin.texts, 1, i - 1)
                      /\ Flatten(SubSeq(cout.batches, k + 1, Len(cout.batches)))
                             = SubSeq(cin.texts, i + 1, Len(cin.texts))

C12_Witness ==
    /\ cout.called
    /\ cout.ok
    /\ Len(cin.texts) = 3
    /\ estimate_token_count(cin.texts[1]) <= ChunkBudget
    /\ estimate_token_count(cin.texts[2]) > ChunkBudget
    /\ estimate_token_count(cin.texts[1]) + estimate_token_count(cin.texts[3])
           <= ChunkBudget
    /\ cout.batches = <<<<cin.texts[1]>>, <<cin.texts[2]>>, <<cin.texts[3]>>>>

\* C13: chunk_by_tokens fails with a configuration error and no batches
\* exactly when max_tokens <= 0, reserved_tokens < 0 or
\* max_tokens - reserved_tokens <= 0; otherwise it returns batches.
C13_ConfigErrors ==
    cout.called =>
        /\ ~cout.ok <=> \/ cin.max_tokens <= 0
                        \/ cin.reserved_tokens < 0
                        \/ ChunkBudget <= 0
        /\ ~cout.ok => /\ cout.batches = <<>>
                       /\ cout.err \in {"max_tokens must be positive",
                                        "reserved_tokens cannot be negative",
                                        "reserved_tokens leaves no room for prompts"}
        /\ cout.ok => cout.err = None

C13_Witness ==
    /\ cout.called
    /\ ~cout.ok
    /\ cin.max_tokens > 0
    /\ cin.reserved_tokens < 0
    /\ cin.texts # <<>>
    /\ cout.err = "reserved_tokens cannot be negative"

\* the raw lines of the block text of the direct call
BlockLines == SplitLines(cin.text)

\* C16: within a block, a line ending in '-' followed by a line starting with
\* a lowercase letter gives one word, the hyphen removed and no space added;
\* followed by a line starting with an uppercase letter the hyphen stays and
\* the lines are joined with one space; a blank line ends the paragraph, so
\* the lines around it are not merged.
C16_Dehyphenate ==
    cout.called =>
        LET n1 == NormalizeLine(BlockLines[1])
            n2 == NormalizeLine(BlockLines[2])
            n3 == NormalizeLine(BlockLines[3])
        IN  /\ (Len(BlockLines) = 2 /\ n1 # <<>> /\ n2 # <<>>
                  /\ n1[Len(n1)] = "-" /\ n2[1] \in Lowercase)
                   => cout.paragraphs = <<SubSeq(n1, 1, Len(n1) - 1) \o n2>>
            /\ (Len(BlockLines) = 2 /\ n1 # <<>> /\ n2 # <<>>
                  /\ n1[Len(n1)] = "-" /\ n2[1] \in Uppercase)
                   => cout.paragraphs = <<n1 \o <<" ">> \o n2>>
            /\ (Len(BlockLines) = 3 /\ n1 # <<>> /\ n2 = <<>> /\ n3 # <<>>)
                   => cout.paragraphs = <<n1, n3>>

C16_Witness ==
    /\ cout.called
    /\ cin.text = <<"B", "a", "-", "\n", "a">>
    /\ cout.paragraphs = <<<<"B", "a", "a">>>>

\* what the document of the direct call shows, read off its pages
DocPageCount == Len(cin.pages)

\* the pages on which some text block with this normalized text lies in the zone
ZonePages(key, zone) ==
    {p \in 1..DocPageCount :
        \E n \in 1..Len(cin.pages[p]) :
            LET b == cin.pages[p][n]
            IN  /\ b.kind = "text"
                /\ normalize_key(b.text) = key
                /\ IF zone = "header" THEN b.header ELSE b.footer}

\* the pages on which some text block with this normalized text lies at all
KeyPages(key) ==
    {p \in 1..DocPageCount :
        \E n \in 1..Len(cin.pages[p]) :
            cin.pages[p][n].kind = "text" /\ normalize_key(cin.pages[p][n].text) = key}

\* the normalized texts of the text blocks of the document
DocKeys ==
    UNION {{normalize_key(cin.pages[p][n].text) : n \in 1..Len(cin.pages[p])} :
             p \in 1..DocPageCount} \ {<<>>}

\* max(2, ceil(0.6 * page_count))
CeilThreshold == Max(2, (6 * DocPageCount + 9) \div 10)

\* C14: in a document of two or more pages, a normalized string found in the
\* header zone on at least max(2, ceil(0.6 N)) pages, or in the footer zone on
\* that many, has every block with that text dropped, in whatever zone the
\* block lies; a page counts a string once however often it shows it.
C14_RepeatingDropped ==
    \A i \in 1..Len(cout.runs) :
        DocPageCount >= 2 =>
            /\ \A key \in DocKeys :
                  (\/ Cardinality(ZonePages(key, "header")) >= CeilThreshold
                   \/ Cardinality(ZonePages(key, "footer")) >= CeilThreshold)
                  => \A n \in 1..Len(cout.runs[i].kept) :
                         cout.runs[i].kept[n].key # key
            /\ \A key \in DocKeys :
                  /\ CounterGet(cout.header_counter, key)
                        = Cardinality(ZonePages(key, "header"))
                  /\ CounterGet(cout.footer_counter, key)
                        = Cardinality(ZonePages(key, "footer"))

C14_Witness ==
    /\ Len(cout.runs) >= 1
    /\ cout.runs[1].ok
    /\ DocPageCount = 3
    /\ Cardinality(ZonePages(<<"H">>, "header")) = 2
    /\ Cardinality(KeyPages(<<"H">>)) = 3
    /\ \E p \in 1..DocPageCount : cin.pages[p] = <<HeadBlock, HeadBlockSpaced>>
    /\ \A n \in 1..Len(cout.runs[1].kept) : cout.runs[1].kept[n].key # <<"H">>

\* C15: a block whose normalized text appears on fewer than 60% of the pages
\* of a document of two or more pages is never dropped, and in a single-page
\* document no block is filtered.
C15_RareKept ==
    \A i \in 1..Len(cout.runs) :
        \A key \in DocKeys :
            (DocPageCount = 1 \/ 10 * Cardinality(KeyPages(key)) < 6 * DocPageCount)
            => \A p \in 1..DocPageCount :
                  \A n \in 1..Len(PageBlocks(cin.pages[p], p - 1)) :
                      PageBlocks(cin.pages[p], p - 1)[n].key = key
                      => \E m \in 1..Len(cout.runs[i].kept) :
                            cout.runs[i].kept[m] = PageBlocks(cin.pages[p], p - 1)[n]

\* C17: the second extraction of a document under the same configuration
\* returns what the first returned: same outcome, same paragraphs, same order.
C17_Idempotent ==
    Len(cout.runs) = 2 => cout.runs[1] = cout.runs[2]

C17_Witness ==
    /\ Len(cout.runs) = 2
    /\ cout.runs[2].ok
    /\ Len(cout.runs[2].paras) >= 2
    /\ Cardinality(ZonePages(<<"H">>, "header")) = 1
    /\ Cardinality(ZonePages(<<"c">>, "footer")) >= CeilThreshold
    /\ \E n \in 1..Len(cout.runs[2].kept) : cout.runs[2].kept[n].key = <<"H">>

\* the keys the run filtered: those of blocks of the document it did not keep
FilteredKeys(run) ==
    {k \in DocKeys : \A n \in 1..Len(run.kept) : run.kept[n].key # k}

\* C18: an extraction fails or returns a non-empty list of paragraphs, each
\* non-empty after trimming, in page order and within a page in block order;
\* a document whose blocks were all filtered makes it fail, not return <<>>.
C18_NonEmptyOrdered ==
    \A i \in 1..Len(cout.runs) :
        LET run == cout.runs[i]
        IN  /\ run.ok =>
                /\ run.paras # <<>>
                /\ \A n \in 1..Len(run.paras) :
                      run.paras[n] # <<>> /\ Strip(run.paras[n]) = run.paras[n]
                /\ run.paras = Flatten([n \in 1..Len(run.kept) |->
                                          block_to_paragraphs(run.kept[n].text)])
                /\ \A p \in 1..DocPageCount :
                      SelectSeq(run.kept, LAMBDA b : b.page_index = p - 1)
                        = SelectSeq(PageBlocks(cin.pages[p], p - 1),
                                    LAMBDA b : b.key \notin FilteredKeys(run))
                /\ \A n \in 1..(Len(run.kept) - 1) :
                      run.kept[n].page_index <= run.kept[n + 1].page_index
            /\ ~run.ok => run.paras = <<>> /\ run.err # None
            /\ run.kept = <<>> => ~run.ok

C18_Witness ==
    /\ Len(cout.runs) >= 1
    /\ DocPageCount >= 2
    /\ \E p \in 1..DocPageCount : PageBlocks(cin.pages[p], p - 1) # <<>>
    /\ cout.runs[1].kept = <<>>
    /\ ~cout.runs[1].ok
    /\ cout.runs[1].err = "The PDF appears to be image-only or empty"

\* how often the key occurs among the tokens the builder does not skip
KeyCount(key) ==
    Cardinality({n \in 1..Len(cin.tokens) :
                    IsCandidate(cin.tokens[n]) /\ TokenKey(cin.tokens[n]) = key})

\* the keys of the tokens the builder does not skip
CandidateKeys ==
    {TokenKey(cin.tokens[n]) : n \in {m \in 1..Len(cin.tokens) : IsCandidate(cin.tokens[m])}}

\* the rank of a key: its score and its count
KeyRank(key) ==
    [score |-> KeyCount(key) * (1 + Max(0, 7 - cin.zipf[key.body])),
     count |-> KeyCount(key)]

\* C19: the vocabulary builder emits at most 30 entries however many distinct
\* candidate words there are, every entry comes from a token that is not
\* whitespace, punctuation, number-like or a stop word, and the entries are
\* the highest by (score, count), in descending order.
C19_CappedRanked ==
    cout.called =>
        LET emitted == {cout.rows[i].word : i \in 1..Len(cout.rows)}
        IN  /\ cout.ok
            /\ Len(cout.rows) <= 30
            /\ Len(cout.rows) = IF Cardinality(CandidateKeys) < 30
                                THEN Cardinality(CandidateKeys) ELSE 30
            /\ Cardinality(emitted) = Len(cout.rows)
            /\ emitted \subseteq CandidateKeys
            /\ \A i \in 1..(Len(cout.rows) - 1) :
                  KeyAtLeast(KeyRank(cout.rows[i].word), KeyRank(cout.rows[i + 1].word))
            /\ \A w \in emitted : \A v \in CandidateKeys \ emitted :
                  KeyAtLeast(KeyRank(w), KeyRank(v))

C19_Witness ==
    /\ cout.called
    /\ Cardinality(CandidateKeys) > 30
    /\ Len(cout.rows) = 30
    /\ \E i, j \in 1..30 : KeyRank(cout.rows[i].word).score
                             > KeyRank(cout.rows[j].word).score
    /\ \E n \in 1..Len(cin.tokens) : cin.tokens[n].is_stop

\* the first request of the direct call the engine did not answer well, 0 if none
FirstBad ==
    IF \E i \in 1..Len(cin.kinds) : cin.kinds[i] # "ok"
    THEN CHOOSE i \in 1..Len(cin.kinds) :
            cin.kinds[i] # "ok" /\ \A j \in 1..(i - 1) : cin.kinds[j] = "ok"
    ELSE 0

\* C20: translate_batch of the remote provider returns one translation per
\* text, in input order, or fails: an answer with another item count raises
\* the mismatch error, an answer that is no JSON list raises a format error,
\* nothing partial comes back; an empty input returns <<>> with no request.
C20_RemoteAllOrNothing ==
    cout.called =>
        /\ cin.texts = <<>> => cout.ok /\ cout.out = <<>> /\ cout.calls = 0
        /\ cout.ok <=> FirstBad = 0
        /\ cout.ok => /\ Len(cout.out) = Len(cin.texts)
                      /\ \A i \in 1..Len(cin.texts) :
                            cout.out[i] = RemoteTranslate(cin.texts[i], cin.tgt_lang)
                      /\ cout.calls = Len(cin.kinds)
        /\ ~cout.ok => /\ cout.out = <<>>
                       /\ cout.calls = FirstBad
        /\ (FirstBad # 0 /\ cin.kinds[FirstBad] \in {"short", "extra"})
              => cout.err = "OpenAI returned a mismatched number of translations"
        /\ (FirstBad # 0 /\ cin.kinds[FirstBad] = "not_json")
              => cout.err = "OpenAI response was not valid JSON"
        /\ (FirstBad # 0 /\ cin.kinds[FirstBad] = "not_list")
              => cout.err = "OpenAI response JSON does not contain a list of translations"

C20_Witness ==
    /\ cout.called
    /\ Len(cin.texts) = 3
    /\ Len(cin.kinds) = 2
    /\ cin.kinds = <<"ok", "short">>
    /\ ~cout.ok
    /\ cout.calls = 2
    /\ cout.err = "OpenAI returned a mismatched number of translations"

\* the fields both backends keep
CoreFields == {"status", "stage", "pct", "error", "epub_path", "cards_path"}

\* the keyword was supplied in the update
Supplied(u, f) ==
    CASE f \in {"status", "stage"} -> u[f] # None
      [] f = "pct" -> u[f] # NoPct
      [] OTHER -> u[f] # SENTINEL

\* the record is what the last update makes of the record before it
LastApplied(entry, before) ==
    /\ entry.present = before.present
    /\ \A f \in CoreFields :
          entry.rec[f] = IF before.present /\ Supplied(cout.last, f)
                         THEN cout.last[f] ELSE before.rec[f]

\* C22: after any sequence of updates the relational and the manifest record
\* agree on status, stage, pct, error, epub_path and cards_path; a field not
\* supplied keeps its value; error=None clears the error while an omitted
\* error leaves it; an update for a job without a record changes nothing and
\* creates no record.
C22_BackendsAgree ==
    pc = "backends" =>
        /\ cout.sqlite.present = cout.manifests.present
        /\ \A f \in CoreFields : cout.sqlite.rec[f] = cout.manifests.rec[f]
        /\ LastApplied(cout.sqlite, cout.before_sqlite)
        /\ LastApplied(cout.manifests, cout.before_manifests)
        /\ ~cin.created => cout.sqlite = NoRecord /\ cout.manifests = NoRecord

C22_Witness ==
    /\ pc = "backends"
    /\ cout.applied = 2
    /\ cout.before_manifests.rec.error = "boom"
    /\ cout.last.error = None
    /\ cout.last.status = None
    /\ cout.manifests.rec.error = None
    /\ cout.sqlite.rec.status = "error"
    /\ cout.manifests.rec.extra # cout.sqlite.rec.extra

\* the record after the two updates applied one after the other, a first
SerialResult(a, b) ==
    UpdateJobState(UpdateJobState(cin.first, cin.u[a], settings.db_mode),
                   cin.u[b], settings.db_mode)

\* C21: two concurrent partial updates of one job leave the record that
\* applying them one after the other, in one of the two orders, leaves, on
\* the relational and on the manifest backend.
C21_Serialized ==
    (pc = "writers" /\ cout[1].at = "done" /\ cout[2].at = "done") =>
        job \in {SerialResult(1, 2), SerialResult(2, 1)}


(* ------------------- termination of run_pipeline ---------------------- *)
\* one run of run_pipeline in which every step that can be taken is eventually
\* taken: the coroutine is awaited to completion, and every collaborator call
\* returns or raises
SpecFair == Spec /\ WF_vars(Next)

\* C23: every run of run_pipeline on an existing job eventually ends, and
\* once it has ended the job's status is done or error (never queued or
\* processing)
C23_EndsDoneOrError == <>(RunOver /\ job.status \in {"done", "error"})


(* ---------------- a stage is persisted before its work ---------------- *)
\* the stage whose work the call named n begins, and that stage's start pct
WorkStage(n) ==
    CASE n \in {"resolve_source_pdf", "extract_paragraphs"} -> <<"parse_pdf", 5>>
      [] n = "translate_batch"     -> <<"translate", 40>>
      [] n = "build_epub"          -> <<"build_epub", 85>>
      [] n = "generate_flashcards" -> <<"flashcards", 96>>

StageWorkCalls ==
    {"resolve_source_pdf", "extract_paragraphs", "translate_batch", "build_epub",
     "generate_flashcards"}

\* the control points at which the work of a stage is about to be done
WorkPoint ==
    [resolve |-> "parse_pdf", extract |-> "parse_pdf", translate_batch |-> "translate",
     build_epub |-> "build_epub", flashcards |-> "flashcards"]

\* C24: for each of the stages parse_pdf, translate, build (persisted as
\* build_epub) and flashcards, the update recording status=processing with
\* the stage's name and its start percentage has been persisted before the
\* first action of the stage's work: every stage-work call in the run is
\* preceded by that write, and while the work is about to be done the record
\* holds status processing and that stage
C24_StartBeforeWork ==
    /\ \A i \in 1..Len(trace) :
         (trace[i].t = "call" /\ trace[i].name \in StageWorkCalls) =>
            \E j \in 1..(i - 1) :
               trace[j] = WriteEv(Progress(WorkStage(trace[i].name)[1],
                                           Pct(WorkStage(trace[i].name)[2])))
    /\ pc \in DOMAIN WorkPoint =>
         (job.status = "processing" /\ job.stage = WorkPoint[pc])

\* the work of all four stages has been started in one run
C24_Witness ==
    \A n \in StageWorkCalls : \E i \in 1..Len(trace) : trace[i] = CallEv(n)


(* --------------------------- no retries ------------------------------- *)
\* how many times the run has made the call named n
CallCount(n) == Len(SelectSeq(trace, LAMBDA e : e = CallEv(n)))

\* the stage actions a run makes once
OnceCalls ==
    {"resolve_source_pdf", "extract_paragraphs", "write_paragraphs",
     "persist_translations", "build_epub", "generate_flashcards"}

IsTerminalWrite(e) == e.t = "write" /\ e.status \in {"error", "done"}

\* C25: a run never retries: each stage action is invoked at most once (and
\* translate_batch at most once per batch), status=error is written only by
\* the top-level handler and at most once, and after a write of status=error
\* or status=done the run makes no further write to the record and starts
\* no further stage work
C25_NoRetry ==
    /\ \A n \in OnceCalls : CallCount(n) <= 1
    /\ CallCount("translate_batch") <= Len(lv.batches)
    /\ CallCount("translate_batch") \in {lv.index, lv.index + 1}
    /\ Len(SelectSeq(trace, LAMBDA e : e.t = "write" /\ e.status = "error")) <= 1
    /\ \A i \in 1..Len(trace) :
         /\ IsTerminalWrite(trace[i]) =>
              (i = Len(trace) /\ pc \in {"finally", "ended", "raised"})
         /\ (trace[i].t = "write" /\ trace[i].status = "error") =>
              trace[i] = WriteEv(HandlerUpdate(lv.exc))

\* a run that failed in the build after two translate_batch calls has
\* ended with the handler's error write
C25_Witness ==
    /\ pc = "ended"
    /\ CallCount("translate_batch") >= 2
    /\ CallCount("build_epub") = 1
    /\ trace # <<>>
    /\ trace[Len(trace)].status = "error"


(* ------------------- sequential translation batches ------------------- *)
\* the history of the translate stage: its persisted updates and its
\* translate_batch calls
TranslateEvents ==
    SelectSeq(trace, LAMBDA e : \/ (e.t = "write" /\ e.stage = "translate")
                                \/ e = CallEv("translate_batch"))

\* the number of translate_batch calls among the first i translate events
CallsUpTo(T, i) == Len(SelectSeq(SubSeq(T, 1, i), LAMBDA e : e.t = "call"))

\* pct = 40 + 35 * k / total, without rounding
IsFractionPct(pct, k, total) == pct * total = Pct(40) * total + 35 * k * Scale

\* C26: translate_batch calls are issued one at a time in batch order: call
\* k+1 starts only after call k returned and its progress was persisted;
\* progress is reported once before the first batch with fraction 0 and once
\* after each batch with fraction k/total, strictly increasing and ending
\* at 1; each persisted pct is 40 + 35 * fraction and lies within 40..75
C26_SequentialBatches ==
    LET T == TranslateEvents
        total == Max(1, Len(lv.batches))
    IN  /\ CallsUpTo(T, Len(T)) <= Len(lv.batches)
        /\ \A i \in 1..Len(T) :
             /\ T[i].t = "write" => (T[i].pct >= Pct(40) /\ T[i].pct <= Pct(75))
             /\ i <= 2 => (T[i].t = "write" /\ IsFractionPct(T[i].pct, 0, total))
             /\ T[i].t = "call" =>
                  /\ i >= 3
                  /\ T[i - 1].t = "write"
                  /\ IsFractionPct(T[i - 1].pct, CallsUpTo(T, i) - 1, total)
             /\ (i >= 2 /\ T[i].t = "write" /\ T[i - 1].t = "call") =>
                  IsFractionPct(T[i].pct, CallsUpTo(T, i), total)
             /\ \A j \in 1..(i - 1) :
                  (T[i].t = "write" /\ T[j].t = "write") =>
                      /\ T[j].pct <= T[i].pct
                      /\ CallsUpTo(T, j) < CallsUpTo(T, i) => T[j].pct < T[i].pct
        /\ pc = "persist_translations" =>
             /\ CallsUpTo(T, Len(T)) = Len(lv.batches)
             /\ T[Len(T)].t = "write"
             /\ IsFractionPct(T[Len(T)].pct, total, total)
             /\ T[Len(T)].pct = Pct(75)

\* every batch of a run with at least two batches has been translated and
\* reported
C26_Witness ==
    /\ pc = "persist_translations"
    /\ Len(lv.batches) >= 2
    /\ CallCount("translate_batch") = Len(lv.batches)


(* --------------------------- greedy packing --------------------------- *)
\* C27: chunk_by_tokens packs greedily: a batch is closed only when the
\* next text would not fit, so for every two adjacent batches the token sum
\* of the earlier one plus the cost of the first text of the later one
\* exceeds the budget
C27_GreedyPacking ==
    (cout.called /\ cout.ok) =>
        \A k \in 1..(Len(cout.batches) - 1) :
            TokenSum(cout.batches[k]) + estimate_token_count(cout.batches[k + 1][1])
                > ChunkBudget

\* three texts that each fit the budget came back as a batch of two that a
\* third text did not fit into, followed by the batch of that text
C27_Witness ==
    /\ cout.called
    /\ cout.ok
    /\ Len(cin.texts) = 3
    /\ \A i \in 1..3 : estimate_token_count(cin.texts[i]) <= ChunkBudget
    /\ Len(cout.batches) = 2
    /\ Len(cout.batches[1]) = 2
    /\ TokenSum(cout.batches[1]) < ChunkBudget


(* -------------------- order of the extraction checks ------------------- *)
SyncOver == pc \in {"sync_raised", "sync_returned"}

TooBig == doc.size_bytes > settings.max_pdf_mb * 1024 * 1024

\* the conditions of the claim in its order, and the errors that report each
SyncConditions ==
    <<TooBig,
      doc.open # "ok" \/ doc.needs_pass,
      doc.page_count = 0,
      doc.page_count > settings.max_pages,
      ~doc.has_blocks \/ doc.paras = <<>>>>

SyncErrors ==
    <<{"PDF size exceeds limit"},
      {"Encrypted PDFs are not supported", "Unable to open PDF for parsing"},
      {"PDF contains no pages"},
      {"PDF page count exceeds limit"},
      {"The PDF does not contain extractable text content",
       "The PDF appears to be image-only or empty"}>>

\* the conditions that hold for the document
Holding == {k \in 1..5 : SyncConditions[k]}

FirstHolding == CHOOSE k \in Holding : \A m \in Holding : k <= m

\* C28: the size limit is checked before the document is opened and the page
\* limit before any page is loaded; an encrypted or password-protected
\* document fails with the Encrypted error, which is neither the
\* unable-to-open error nor a limit error; when several conditions hold the
\* error is that of the first in the order size limit, unreadable/encrypted,
\* zero pages, page limit, no extractable text
C28_CheckOrder ==
    /\ (doc.exists /\ TooBig) => ~cout.opened
    /\ doc.page_count > settings.max_pages => cout.loaded = 0
    /\ (SyncOver /\ doc.exists /\ ~TooBig
                 /\ (doc.open = "encrypted" \/ (doc.open = "ok" /\ doc.needs_pass))) =>
          /\ cout.err = "Encrypted PDFs are not supported"
          /\ cout.err \notin {"Unable to open PDF for parsing", "PDF size exceeds limit",
                              "PDF page count exceeds limit"}
    /\ (SyncOver /\ doc.exists /\ ~TooBig /\ doc.open = "corrupt") =>
          cout.err = "Unable to open PDF for parsing"
    /\ (SyncOver /\ doc.exists) =>
          IF Holding = {} THEN cout.ok /\ cout.err = None
          ELSE ~cout.ok /\ cout.err \in SyncErrors[FirstHolding]
    /\ SyncOver => (cout.err = ExtractSync(doc, settings).err
                    /\ cout.loaded = ExtractSync(doc, settings).loaded)

\* a document over the size limit that is also encrypted, has too many pages
\* and no text was rejected for its size
C28_Witness ==
    /\ SyncOver
    /\ doc.exists
    /\ Holding = {1, 2, 4, 5}
    /\ cout.err = "PDF size exceeds limit"

\* a password-protected document with too many pages was rejected as encrypted
C28_WitnessEncrypted ==
    /\ SyncOver
    /\ doc.exists
    /\ Holding = {2, 4}
    /\ doc.needs_pass
    /\ cout.opened
    /\ cout.err = "Encrypted PDFs are not supported"


(* --------------------- runs of different jobs -------------------------- *)
\* the artifact stored at a path (Absent when nothing was written there)
FileAt(path) == IF path \in DOMAIN fs.files THEN fs.files[path] ELSE Absent

\* the paths and keys that belong to job_id
OwnPaths(job_id) ==
    {ArtifactLocation(settings.storage_backend, job_id, n) : n \in ArtifactNames}

\* C29: runs for different job ids do not interfere: under every
\* interleaving, the record and the artifacts of each job are what that
\* job's own run alone has made of them, no run removes the other's
\* temporary directory, and nothing is written outside the two jobs' own
\* record keys and artifact paths
C29_NoInterference ==
    /\ \A r \in 1..2 :
         /\ RecordKey(settings.db_mode, cin.ids[r]) \in DOMAIN job
         /\ job[RecordKey(settings.db_mode, cin.ids[r])] = cout[r].record
         /\ \A n \in ArtifactNames :
              FileAt(ArtifactLocation(settings.storage_backend, cin.ids[r], n))
                  = cout[r].files[n]
         /\ (lv[r].tmp_dir # None /\ lv[r].at # "ended") => lv[r].tmp_dir \in fs.tmpdirs
    /\ DOMAIN job = {RecordKey(settings.db_mode, cin.ids[r]) : r \in 1..2}
    /\ DOMAIN fs.files \subseteq OwnPaths(cin.ids[1]) \cup OwnPaths(cin.ids[2])

\* both runs are over: the first failed after writing its e-book, the second
\* finished, and the ids are a1 and a10
C29_Witness ==
    /\ pc = "jobs"
    /\ cin.ids = <<"a1", "a10">>
    /\ lv[1].at = "ended"
    /\ lv[2].at = "ended"
    /\ cout[1].record.status = "error"
    /\ cout[1].files["book.epub"].present
    /\ cout[2].record.status = "done"


(* ---------------- artifact references and the final update ------------ *)
\* the run has failed: an exception was raised inside the try block
Failed == lv.exc # None /\ pc \in {"handler", "finally", "ended", "raised"}

\* C30: epub_path and cards_path are written only by the finalize update
\* that sets status=done: in a run on a fresh job a non-null epub_path or
\* cards_path implies status=done (and that update is the last write), and a
\* run that ends in error leaves both unset while the artifacts already
\* written to storage stay in place
C30_PathsOnlyWhenDone ==
    /\ (job.epub_path # None \/ job.cards_path # None) =>
          /\ job.status = "done"
          /\ trace # <<>>
          /\ trace[Len(trace)] =
                 WriteEv(FinalUpdate(lv.artifact_location, lv.cards_location, FinalExtra))
    /\ (\E i \in 1..Len(trace) : trace[i].t = "write" /\ trace[i].status = "error") =>
          (job.status = "error" /\ job.epub_path = None /\ job.cards_path = None)
    /\ Failed =>
          /\ job.epub_path = None
          /\ job.cards_path = None
          /\ lv.paragraphs_location # None => fs.paragraphs_json = File(lv.paragraphs)
          /\ lv.translations_location # None => fs.translations_json = File(lv.translations)
          /\ lv.artifact_location # None => fs.book_epub = File(lv.translations)
          /\ lv.cards_location # None => fs.flashcards_csv.present

\* a run that built the e-book and then failed in the flashcards stage has
\* ended in error with its three artifacts still stored
C30_Witness ==
    /\ pc = "ended"
    /\ job.status = "error"
    /\ lv.fail_stage = "flashcards"
    /\ fs.paragraphs_json.present
    /\ fs.translations_json.present
    /\ fs.book_epub.present
    /\ job.epub_path = None

====
